---- MODULE Spec2Model ----
(***************************************************************************)
(* A model of the Feedonomics client (src/lib/FdxClient.ts) and of the     *)
(* orchestration service built on it (class FdxService, second half of     *)
(* src/examples/bigcommerce-automated-setup.ts).                           *)
(*                                                                         *)
(* The client is one session object (apiToken, dbId, verbose, the axios    *)
(* instance).  Callers are processes: each runs one operation at a time,   *)
(* an operation is suspended at every await, and the remote service        *)
(* answers an outstanding HTTP call with any outcome axios can deliver.    *)
(***************************************************************************)
EXTENDS Integers, Sequences, FiniteSets, TLC

(***************************************************************************)
(* JavaScript values.  Scalars are strings; undefined, null and the number *)
(* 0 are marker strings.  An optional object (a response, a body, a key of *)
(* a result envelope) is a sequence of length 0 (absent) or 1 (present).   *)
(***************************************************************************)
Undef == "<undefined>"
Null == "<null>"
Zero == "<0>"
True == "<true>"

Falsy(v) == v \in {Undef, Null, Zero, ""}
Truthy(v) == ~Falsy(v)

\* a || b
Or(a, b) == IF Truthy(a) THEN a ELSE b

\* `${v}` and v.toString()
String(v) ==
  CASE v = Undef -> "undefined"
    [] v = Null -> "null"
    [] v = Zero -> "0"
    [] v = True -> "true"
    [] OTHER -> v

None == <<>>
Some(v) == <<v>>
\* an object key holding v: a key whose value is undefined reads as absent
Opt(v) == IF v = Undef THEN None ELSE Some(v)
\* o?.field, for an optional record o
Field(o, f) == IF o = None THEN Undef ELSE o[1][f]

\* s.startsWith(prefix)
StartsWith(s, prefix) ==
  /\ Len(s) >= Len(prefix)
  /\ SubSeq(s, 1, Len(prefix)) = prefix

(***************************************************************************)
(* ServiceResponse<T>: { success, data?, error?, status? }                 *)
(***************************************************************************)
ServiceResponse(success, data, error, status) ==
  [success |-> success, data |-> data, error |-> error, status |-> status]

\* `${result.error}` of an envelope
ErrorText(env) == IF env.error = None THEN "undefined" ELSE String(env.error[1])

(***************************************************************************)
(* What a client method hands back before any await: either a result       *)
(* envelope (call = None: no HTTP call was made) or one outbound HTTP call *)
(* whose outcome decides the envelope (env = None).                        *)
(***************************************************************************)
Returned(env) == [env |-> Some(env), call |-> None, log |-> <<>>]
Outbound(method, url, data) ==
  [env |-> None, call |-> Some([method |-> method, url |-> url, data |-> data]),
   log |-> <<>>]

(***************************************************************************)
(* The remote service and axios.  An outbound call resolves with a         *)
(* response, or rejects with an error that may carry a response.           *)
(* A response is { status, data }; a body is the part of the JSON payload  *)
(* this code reads: id, message and data.new_row_id.                       *)
(***************************************************************************)
Ids == {Undef, Zero, "id1", "id2"}
RowIds == {Undef, "row1"}
Messages == {Undef, "", "boom"}
Statuses == {199, 200, 299, 300}
RejectedStatuses == {None, Some(200), Some(500)}
ExceptionMessages == {Undef, "", "timeout of 60000ms exceeded"}

Bodies ==
  {[id |-> i, message |-> Undef, new_row_id |-> Undef] : i \in Ids}
    \cup {[id |-> Undef, message |-> Undef, new_row_id |-> n] : n \in RowIds}
    \cup {[id |-> Undef, message |-> m, new_row_id |-> Undef] : m \in Messages}
OptBodies == {None} \cup {Some(b) : b \in Bodies}

Resolved ==
  {[kind |-> "resolved",
    response |-> Some([status |-> Some(s), data |-> d]),
    message |-> Undef] : s \in Statuses, d \in OptBodies}
RejectedWithResponse ==
  {[kind |-> "rejected",
    response |-> Some([status |-> s, data |-> d]),
    message |-> "Request failed"] :
      s \in RejectedStatuses, d \in OptBodies}
RejectedWithoutResponse ==
  {[kind |-> "rejected", response |-> None, message |-> m] : m \in ExceptionMessages}
Outcomes == Resolved \cup RejectedWithResponse \cup RejectedWithoutResponse

(***************************************************************************)
(* State.                                                                  *)
(***************************************************************************)
VARIABLES
  construction,  \* the latest `new FdxClient(config)`: its argument and what it threw
  client,        \* FdxClient.client, the axios instance (None until created)
  apiToken,      \* FdxClient.apiToken
  dbId,          \* FdxClient.dbId, the active database
  baseUrl,       \* FdxClient.baseUrl
  verbose,       \* FdxClient.verbose
  proc,          \* per caller: the operation it runs and where that operation stands
  remote         \* the resources a remote service that keeps them holds

vars == <<construction, client, apiToken, dbId, baseUrl, verbose, proc, remote>>
session == <<construction, client, apiToken, dbId, baseUrl, verbose>>

Procs == {"p1"}

DefaultBaseUrl == "https://meta.feedonomics.com/api.php"
DefaultTimeout == 60000

\* FeedonomicsConfig values a caller may pass (None: no config object)
Configs ==
  {None} \cup
  {Some([apiToken |-> t, dbId |-> d, baseUrl |-> Undef, timeout |-> None, verbose |-> v]) :
     t \in {Undef, "", "tok-A"}, d \in {Undef, "db0"}, v \in {Undef}}

(***************************************************************************)
(* new FdxClient(config)                                                   *)
(***************************************************************************)
\* variant: only a missing token is refused, an empty one passes
ConstructorThrows_undefinedOnly(config) ==
  IF config = None THEN Some("Config is required")
  ELSE IF config[1].apiToken = Undef THEN Some("API key is required")
  ELSE None

ConstructorThrows(config) ==
  IF config = None THEN Some("Config is required")
  ELSE IF Falsy(config[1].apiToken) THEN Some("API key is required")
  ELSE None

Constructed == client # None

constructor(config) ==
  /\ ~Constructed
  /\ LET thrown == ConstructorThrows(config) IN
       /\ construction' = [attempted |-> TRUE, config |-> config, thrown |-> thrown]
       /\ IF thrown # None
            THEN UNCHANGED <<client, apiToken, dbId, baseUrl, verbose>>
            ELSE LET c == config[1] IN
                 /\ apiToken' = c.apiToken
                 /\ dbId' = c.dbId
                 /\ baseUrl' = Or(c.baseUrl, DefaultBaseUrl)
                 /\ verbose' = Truthy(c.verbose)
                 /\ client' = Some([baseURL |-> Or(c.baseUrl, DefaultBaseUrl),
                                    timeout |-> IF c.timeout = None \/ c.timeout[1] = 0
                                                  THEN DefaultTimeout ELSE c.timeout[1],
                                    xApiKey |-> c.apiToken])
  /\ UNCHANGED proc

(***************************************************************************)
(* FdxClient.request: the outbound call, and the envelope for each way     *)
(* the awaited call can end.                                               *)
(***************************************************************************)
\* response.data?.message
ResponseMessage(response) == Field(response.data, "message")

\* variant: the success range includes 300
processResponse_inclusive(response) ==
  IF response.status[1] >= 200 /\ response.status[1] <= 300
    THEN ServiceResponse(TRUE, response.data, None, response.status)
    ELSE ServiceResponse(FALSE, None,
                         Opt(Or(ResponseMessage(response), "Unknown error")),
                         response.status)

processResponse(response) ==
  IF response.status[1] >= 200 /\ response.status[1] < 300
    THEN ServiceResponse(TRUE, response.data, None, response.status)
    ELSE ServiceResponse(FALSE, None,
                         Opt(Or(ResponseMessage(response), "Unknown error")),
                         response.status)

\* variant: the exception's own message wins over the response's message
requestCatch_exceptionFirst(error) ==
  IF error.response # None
    THEN ServiceResponse(FALSE, None,
                         Opt(Or(error.message,
                                Or(ResponseMessage(error.response[1]), "API error"))),
                         error.response[1].status)
    ELSE ServiceResponse(FALSE, None, Opt(Or(error.message, "Network error")), None)

\* variant: no placeholder when the exception has no message
requestCatch_noFallback(error) ==
  IF error.response # None
    THEN ServiceResponse(FALSE, None,
                         Opt(Or(ResponseMessage(error.response[1]), "API error")),
                         error.response[1].status)
    ELSE ServiceResponse(FALSE, None, Opt(error.message), None)

\* the catch branch of request
requestCatch(error) ==
  IF error.response # None
    THEN ServiceResponse(FALSE, None,
                         Opt(Or(ResponseMessage(error.response[1]), "API error")),
                         error.response[1].status)
    ELSE ServiceResponse(FALSE, None, Opt(Or(error.message, "Network error")), None)

\* How `await this.client.request(...)` inside request ends: request returns an
\* envelope (thrown = None) or lets an exception escape to its caller.
Completion(env) == [env |-> Some(env), thrown |-> None]
Raised(message) == [env |-> None, thrown |-> Some(message)]

\* variant: an error without a response is thrown on to the caller
requestSettle_rethrow(outcome) ==
  IF outcome.kind = "resolved"
    THEN Completion(processResponse(outcome.response[1]))
    ELSE IF outcome.response = None THEN Raised(outcome.message)
    ELSE Completion(requestCatch(outcome))

requestSettle(outcome) ==
  IF outcome.kind = "resolved"
    THEN Completion(processResponse(outcome.response[1]))
    ELSE Completion(requestCatch(outcome))

\* a console line: console.log(text), or console.error(text, detail)
LogLine(text) == [stream |-> "log", text |-> text, detail |-> None]
ErrorLine(text, detail) == [stream |-> "error", text |-> text, detail |-> Some(detail)]

\* the two lines of logVerbose for a token; the pictographs that open each line
\* are written as (link) and (lock)
VerboseLines(fullUrl, token) ==
  <<LogLine("(link) Full API URL: " \o fullUrl),
    LogLine("(lock) API Key: " \o (IF Truthy(token) THEN "[Set]" ELSE "[Not Set]"))>>

\* logVerbose_leaky is the variant that prints the token
logVerbose_leaky(endpoint) ==
  IF verbose
    THEN <<LogLine("(link) Full API URL: " \o String(baseUrl) \o endpoint),
           LogLine("(lock) API Key: " \o String(apiToken))>>
    ELSE <<>>

logVerbose(endpoint) ==
  IF verbose THEN VerboseLines(String(baseUrl) \o endpoint, apiToken) ELSE <<>>

ConnectionDetails(url, token, flag) ==
  [baseUrl |-> url, apiKeySet |-> IF Truthy(token) THEN "[Set]" ELSE "[Not Set]",
   verbose |-> flag]

getConnectionDetails == ConnectionDetails(baseUrl, apiToken, verbose)

\* the response interceptor's rejection handler:
\* console.error('API Error:', error.response?.data || error.message);
\* the detail is the response body, or else the message, kept in a record
Intercept(outcome) ==
  IF outcome.kind # "rejected" THEN <<>>
  ELSE IF outcome.response # None /\ outcome.response[1].data # None
    THEN <<ErrorLine("API Error:", outcome.response[1].data[1])>>
    ELSE <<ErrorLine("API Error:", [message |-> outcome.message])>>

request(method, url, data) ==
  [Outbound(method, url, data) EXCEPT !.log = logVerbose(url)]

(***************************************************************************)
(* FdxClient methods.  Each is what the method does up to its await: the   *)
(* envelope it returns at once, or the call it hands to request.  The      *)
(* database-scoped ones each repeat the check of the active database.      *)
(***************************************************************************)
DB_ID_REQUIRED == "Database ID is required. Please set it using setDbId() first."
DbIdRequired == ServiceResponse(FALSE, None, Some(DB_ID_REQUIRED), None)

applyAutomateBuildTemplate(importId, templateName) ==
  IF Falsy(dbId) THEN Returned(DbIdRequired)
  ELSE request("POST", "/dbs/" \o String(dbId) \o "/apply_automate_build_template",
               <<"import_id", importId, "template_name", templateName>>)

feedBuild(buildId) ==
  IF Falsy(dbId) THEN Returned(DbIdRequired)
  ELSE request("GET", "/dbs/" \o String(dbId) \o "/builds/" \o String(buildId), <<>>)

cancelBuild(buildId) ==
  IF Falsy(dbId) THEN Returned(DbIdRequired)
  ELSE request("POST", "/dbs/" \o String(dbId) \o "/builds/" \o String(buildId) \o "/cancel", <<>>)

ftpAccounts ==
  IF Falsy(dbId) THEN Returned(DbIdRequired)
  ELSE request("GET", "/dbs/" \o String(dbId) \o "/ftp", <<>>)

createFtpAccounts(data) ==
  IF Falsy(dbId) THEN Returned(DbIdRequired)
  ELSE request("POST", "/dbs/" \o String(dbId) \o "/ftp", data)

imports ==
  IF Falsy(dbId) THEN Returned(DbIdRequired)
  ELSE request("GET", "/dbs/" \o String(dbId) \o "/imports", <<>>)

createImport(importConfig) ==
  IF Falsy(dbId) THEN Returned(DbIdRequired)
  ELSE request("POST", "/dbs/" \o String(dbId) \o "/imports", importConfig)

updateImport(importId, importConfig) ==
  IF Falsy(dbId) THEN Returned(DbIdRequired)
  ELSE request("PUT", "/dbs/" \o String(dbId) \o "/imports/" \o String(importId), importConfig)

\* variant: the check refuses only an undefined dbId, not an empty one
updateImportSchedule_undefinedOnly(importId, schedule) ==
  IF dbId = Undef THEN Returned(DbIdRequired)
  ELSE request("PUT", "/dbs/" \o String(dbId) \o "/imports/" \o String(importId) \o "/schedule",
               schedule)

updateImportSchedule(importId, schedule) ==
  IF Falsy(dbId) THEN Returned(DbIdRequired)
  ELSE request("PUT", "/dbs/" \o String(dbId) \o "/imports/" \o String(importId) \o "/schedule",
               schedule)

exports ==
  IF Falsy(dbId) THEN Returned(DbIdRequired)
  ELSE request("GET", "/dbs/" \o String(dbId) \o "/exports", <<>>)

createExport(exportConfig) ==
  IF Falsy(dbId) THEN Returned(DbIdRequired)
  ELSE request("POST", "/dbs/" \o String(dbId) \o "/exports", exportConfig)

updateExport(exportId, exportConfig) ==
  IF Falsy(dbId) THEN Returned(DbIdRequired)
  ELSE request("PUT", "/dbs/" \o String(dbId) \o "/exports/" \o String(exportId), exportConfig)

scheduleExport(exportId, schedule) ==
  IF Falsy(dbId) THEN Returned(DbIdRequired)
  ELSE request("POST", "/dbs/" \o String(dbId) \o "/exports/" \o String(exportId) \o "/schedule",
               schedule)

transformers ==
  IF Falsy(dbId) THEN Returned(DbIdRequired)
  ELSE request("GET", "/dbs/" \o String(dbId) \o "/transformers", <<>>)

createTransformer(transformer) ==
  IF Falsy(dbId) THEN Returned(DbIdRequired)
  ELSE request("POST", "/dbs/" \o String(dbId) \o "/transformers", transformer)

updateTransformer(transformerId, transformer) ==
  IF Falsy(dbId) THEN Returned(DbIdRequired)
  ELSE request("PUT", "/dbs/" \o String(dbId) \o "/transformers/" \o String(transformerId),
               transformer)

updateDbFields(data) ==
  IF Falsy(dbId) THEN Returned(DbIdRequired)
  ELSE request("PUT", "/dbs/" \o String(dbId) \o "/fields", data)

createJoinImport(joinImportConfig) ==
  IF Falsy(dbId) THEN Returned(DbIdRequired)
  ELSE request("POST", "/dbs/" \o String(dbId) \o "/join_imports", joinImportConfig)

joinImports ==
  IF Falsy(dbId) THEN Returned(DbIdRequired)
  ELSE request("GET", "/dbs/" \o String(dbId) \o "/join_imports", <<>>)

invitePrimaryUser(accountId, email) ==
  request("POST", "/accounts/" \o String(accountId) \o "/user_account_permissions",
          <<"permissions", "primary", "username", email>>)

accounts ==
  request("GET", "/user/accounts", <<>>)

dbs(accountId) ==
  request("GET", "/accounts/" \o String(accountId) \o "/dbs", <<>>)

createDb(accountId, dbName) ==
  request("POST", "/accounts/" \o String(accountId) \o "/dbs", <<"name", dbName>>)

deleteDb(id) ==
  request("DELETE", "/dbs/" \o String(id), <<>>)

vault ==
  request("GET", "/vault", <<>>)

createVault(entry) ==
  request("POST", "/vault", entry)

updateVault(id, entry) ==
  request("PUT", "/vault/" \o String(id), entry)

deleteVault(id) ==
  request("DELETE", "/vault/" \o String(id), <<>>)

groups(accountId) ==
  request("GET", "/accounts/" \o String(accountId) \o "/groups", <<>>)

createGroup(groupName) ==
  request("POST", "/groups", <<"name", groupName>>)

login(username, password, name) ==
  request("POST", "/login",
          <<"username", username, "password", password, "method", "token", "name", name>>)

createBigCommerceAccount(name) ==
  request("POST", "/bigcommerce/account", <<"name", name>>)

moveDbintoNewDbGroup(id, targetGroupName) ==
  request("POST", "/dbs/" \o String(id) \o "/move_db_to_db_group",
          <<"source_db_group_id", "0", "target_db_group_id", "-1",
            "target_db_group_name", targetGroupName>>)

addDbVaultEntry(id, entry) ==
  request("POST", "/dbs/" \o String(id) \o "/vault", entry)

dbFields(id) ==
  request("GET", "/dbs/" \o String(id) \o "/fields", <<>>)

deleteDbField(id, fieldId) ==
  request("DELETE", "/dbs/" \o String(id) \o "/fields/" \o String(fieldId), <<>>)

DbScopedMethods ==
  {"applyAutomateBuildTemplate", "feedBuild", "cancelBuild", "ftpAccounts",
   "createFtpAccounts", "imports", "createImport", "updateImport",
   "updateImportSchedule", "exports", "createExport", "updateExport",
   "scheduleExport", "transformers", "createTransformer", "updateTransformer",
   "updateDbFields", "createJoinImport", "joinImports"}
UnscopedMethods ==
  {"invitePrimaryUser", "accounts", "dbs", "createDb", "deleteDb", "vault",
   "createVault", "updateVault", "deleteVault", "groups", "createGroup", "login",
   "createBigCommerceAccount", "moveDbintoNewDbGroup", "addDbVaultEntry",
   "dbFields", "deleteDbField", "request"}
Methods == DbScopedMethods \cup UnscopedMethods

\* client[m](id, text, payload): a caller's direct use of one method
ClientMethod(m, id, text, payload) ==
  CASE m = "applyAutomateBuildTemplate" -> applyAutomateBuildTemplate(id, text)
    [] m = "feedBuild" -> feedBuild(id)
    [] m = "cancelBuild" -> cancelBuild(id)
    [] m = "ftpAccounts" -> ftpAccounts
    [] m = "createFtpAccounts" -> createFtpAccounts(payload)
    [] m = "imports" -> imports
    [] m = "createImport" -> createImport(payload)
    [] m = "updateImport" -> updateImport(id, payload)
    [] m = "updateImportSchedule" -> updateImportSchedule(id, payload)
    [] m = "exports" -> exports
    [] m = "createExport" -> createExport(payload)
    [] m = "updateExport" -> updateExport(id, payload)
    [] m = "scheduleExport" -> scheduleExport(id, payload)
    [] m = "transformers" -> transformers
    [] m = "createTransformer" -> createTransformer(payload)
    [] m = "updateTransformer" -> updateTransformer(id, payload)
    [] m = "updateDbFields" -> updateDbFields(payload)
    [] m = "createJoinImport" -> createJoinImport(payload)
    [] m = "joinImports" -> joinImports
    [] m = "invitePrimaryUser" -> invitePrimaryUser(id, text)
    [] m = "accounts" -> accounts
    [] m = "dbs" -> dbs(id)
    [] m = "createDb" -> createDb(id, text)
    [] m = "deleteDb" -> deleteDb(id)
    [] m = "vault" -> vault
    [] m = "createVault" -> createVault(payload)
    [] m = "updateVault" -> updateVault(id, payload)
    [] m = "deleteVault" -> deleteVault(id)
    [] m = "groups" -> groups(id)
    [] m = "createGroup" -> createGroup(text)
    [] m = "login" -> login(text, text, text)
    [] m = "createBigCommerceAccount" -> createBigCommerceAccount(text)
    [] m = "moveDbintoNewDbGroup" -> moveDbintoNewDbGroup(id, text)
    [] m = "addDbVaultEntry" -> addDbVaultEntry(id, payload)
    [] m = "dbFields" -> dbFields(id)
    [] m = "deleteDbField" -> deleteDbField(id, id)
    [] m = "request" -> request("POST", text, payload)

(***************************************************************************)
(* Callers.  A process runs one operation at a time.  While it awaits a    *)
(* client method, `wait` holds what that method handed back and `calls`    *)
(* lists the HTTP calls the operation has issued so far.                   *)
(***************************************************************************)
NoWait == [env |-> None, call |-> None, log |-> <<>>]
NoParams ==
  [accountName |-> Undef, storeHash |-> Undef, storeUrl |-> Undef, accessToken |-> Undef,
   clientId |-> Undef, channelId |-> Undef, userEmail |-> Undef, vaultEntryName |-> Undef,
   dbName |-> Undef, groupName |-> Undef, importSchedule |-> None, buildTemplate |-> Undef]
NoLocals == [accountId |-> Undef, dbId |-> Undef, importId |-> Undef, vaultId |-> Undef]
NoStep == [step |-> "", success |-> TRUE, error |-> None]

IdleProc ==
  [op |-> "", pc |-> "idle", step |-> "", wait |-> NoWait, calls |-> <<>>,
   invoked |-> <<>>,      \* the client methods the operation has invoked, in order
   db0 |-> Undef,         \* the active database when a client method was called
   outcome |-> None,      \* how the awaited HTTP call of a direct method call ended
   ret |-> None,          \* the envelope the operation returned
   thrown |-> None,       \* the exception the operation let escape instead
   params |-> NoParams,   \* setupBigCommerceIntegration: its argument
   loc |-> NoLocals,      \* setupBigCommerceIntegration: accountId, dbId, importId, vaultId
   got |-> NoLocals,      \* the identifiers the remote service returned, per producing step
   last |-> NoStep,       \* the latest client result the workflow received
   received |-> 0,        \* how many client results the workflow has received
   input |-> None,        \* generateBigCommercePreprocessorUrl: its argument
   output |-> None,       \* generateBigCommercePreprocessorUrl: the URL it returned
   log |-> <<>>,          \* the console lines written during the operation
   args |-> None,         \* a service operation: its arguments
   entries |-> <<>>,      \* updateVaultEntries: the vault rows it fetched
   existing |-> None,     \* the entry the operation's lookup found
   export_ |-> None,      \* createOrUpdateExport: the export it schedules
   results |-> <<>>,      \* createTransformers, updateDbFields: the payloads so far
   raised |-> None]       \* the exception raised inside the workflow's try block

AllIdle == \A q \in Procs : proc[q].pc = "idle"

\* `await method(...)`: the method ran up to its own await
Await(pr, step, r) ==
  [pr EXCEPT !.pc = "await", !.step = step, !.wait = r,
             !.calls = pr.calls \o r.call, !.invoked = Append(pr.invoked, step),
             !.log = pr.log \o r.log]

\* the awaited call ended: the interceptor has run if a call was made
Intercepted(pr, outcome) ==
  IF pr.wait.call = None THEN pr ELSE [pr EXCEPT !.log = pr.log \o Intercept(outcome)]

\* what the awaited client method settles with, given the HTTP outcome
Received(pr, outcome) ==
  IF pr.wait.call = None THEN Completion(pr.wait.env[1]) ELSE requestSettle(outcome)

Finish(pr, c) ==
  [pr EXCEPT !.pc = "done", !.wait = NoWait, !.ret = c.env, !.thrown = c.thrown]

(***************************************************************************)
(* A caller uses one client method directly.                               *)
(***************************************************************************)
IdArgs == {"7"}
TextArgs == {"x"}
PayloadArgs == {<<"k", "v">>}

Call(p, m, id, text, payload) ==
  /\ Constructed
  /\ AllIdle
  /\ LET r == ClientMethod(m, id, text, payload)
         pr == Await([IdleProc EXCEPT !.op = m, !.db0 = dbId], m, r)
     IN proc' = [proc EXCEPT ![p] =
                   IF r.call = None THEN Finish(pr, Completion(r.env[1])) ELSE pr]
  /\ UNCHANGED session

Settle(p, outcome) ==
  /\ proc[p].pc = "await"
  /\ proc[p].op \in Methods
  /\ proc' = [proc EXCEPT ![p] =
                Finish([Intercepted(proc[p], outcome) EXCEPT !.outcome = Some(outcome)],
                       Received(proc[p], outcome))]
  /\ UNCHANGED session

\* the caller takes the result
Return(p) ==
  /\ proc[p].pc = "done"
  /\ proc' = [proc EXCEPT ![p] = IdleProc]
  /\ UNCHANGED session

DbIdArgs == {Undef, "", "db1"}

setDbId(v) ==
  /\ Constructed
  /\ AllIdle
  /\ dbId' = v
  /\ UNCHANGED <<construction, client, apiToken, baseUrl, verbose, proc>>

getDbId == dbId

(***************************************************************************)
(* FdxClient.generateBigCommercePreprocessorUrl.  Strings are processed    *)
(* character by character, over printable ASCII without the backquote;    *)
(* LoneSurrogate stands for an unpaired UTF-16 surrogate, on which         *)
(* encodeURIComponent throws.                                              *)
(***************************************************************************)
LoneSurrogate == "\f"

AlphaNum ==
    {"A", "B", "C", "D", "E", "F", "G", "H", "I", "J", "K", "L", "M", "N", "O", "P", "Q",
     "R", "S", "T", "U", "V", "W", "X", "Y", "Z", "a", "b", "c", "d", "e", "f", "g", "h",
     "i", "j", "k", "l", "m", "n", "o", "p", "q", "r", "s", "t", "u", "v", "w", "x", "y",
     "z", "0", "1", "2", "3", "4", "5", "6", "7", "8", "9"}

\* the UTF-8 percent-escape of a character that is neither alphanumeric nor kept
PercentEscape(c) ==
  CASE c = "-" -> "%2D"
    [] c = "_" -> "%5F"
    [] c = "." -> "%2E"
    [] c = "*" -> "%2A"
    [] c = "!" -> "%21"
    [] c = "~" -> "%7E"
    [] c = "'" -> "%27"
    [] c = "(" -> "%28"
    [] c = ")" -> "%29"
    [] c = " " -> "%20"
    [] c = "\"" -> "%22"
    [] c = "#" -> "%23"
    [] c = "$" -> "%24"
    [] c = "%" -> "%25"
    [] c = "&" -> "%26"
    [] c = "+" -> "%2B"
    [] c = "," -> "%2C"
    [] c = "/" -> "%2F"
    [] c = ":" -> "%3A"
    [] c = ";" -> "%3B"
    [] c = "<" -> "%3C"
    [] c = "=" -> "%3D"
    [] c = ">" -> "%3E"
    [] c = "?" -> "%3F"
    [] c = "@" -> "%40"
    [] c = "[" -> "%5B"
    [] c = "\\" -> "%5C"
    [] c = "]" -> "%5D"
    [] c = "^" -> "%5E"
    [] c = "{" -> "%7B"
    [] c = "|" -> "%7C"
    [] c = "}" -> "%7D"

RECURSIVE Contains(_, _)
Contains(s, c) ==
  IF Len(s) <= 1 THEN s = c
  ELSE LET half == Len(s) \div 2 IN
       Contains(SubSeq(s, 1, half), c) \/ Contains(SubSeq(s, half + 1, Len(s)), c)

\* encodeURIComponent throws URIError on s
UriMalformed(s) == Contains(s, LoneSurrogate)

RECURSIVE encodeURIComponent(_)
encodeURIComponent(s) ==
  IF s = "" THEN ""
  ELSE IF Len(s) = 1
    THEN IF s \in AlphaNum \cup {"-", "_", ".", "!", "~", "*", "'", "(", ")"}
           THEN s ELSE PercentEscape(s)
    ELSE LET half == Len(s) \div 2 IN
         encodeURIComponent(SubSeq(s, 1, half))
           \o encodeURIComponent(SubSeq(s, half + 1, Len(s)))

\* the application/x-www-form-urlencoded serializer of URLSearchParams.toString
RECURSIVE FormUrlEncode(_)
FormUrlEncode(s) ==
  IF s = "" THEN ""
  ELSE IF Len(s) = 1
    THEN IF s \in AlphaNum \cup {"*", "-", ".", "_"} THEN s
         ELSE IF s = " " THEN "+" ELSE PercentEscape(s)
    ELSE LET half == Len(s) \div 2 IN
         FormUrlEncode(SubSeq(s, 1, half)) \o FormUrlEncode(SubSeq(s, half + 1, Len(s)))

\* an entry of a parameter object: a scalar, or a nested object with scalar fields
Scalar(key, value) == [key |-> key, object |-> FALSE, value |-> value, fields |-> <<>>]
Nested(key, fields) == [key |-> key, object |-> TRUE, value |-> Undef, fields |-> fields]
Defined(v) == v \notin {Undef, Null}

\* searchParams.set(name, value)
SearchParamsSet(searchParams, name, value) ==
  IF \E i \in DOMAIN searchParams : searchParams[i].name = name
    THEN [i \in DOMAIN searchParams |->
            IF searchParams[i].name = name
              THEN [name |-> name, value |-> value] ELSE searchParams[i]]
    ELSE Append(searchParams, [name |-> name, value |-> value])

\* addParam_once is the variant that percent-encodes the value once
addParam_once(searchParams, prefix, key, value) ==
  IF Defined(value)
    THEN SearchParamsSet(searchParams, prefix \o "[" \o key \o "]",
                         encodeURIComponent(String(value)))
    ELSE searchParams

addParam(searchParams, prefix, key, value) ==
  IF Defined(value)
    THEN SearchParamsSet(searchParams, prefix \o "[" \o key \o "]",
                         encodeURIComponent(encodeURIComponent(String(value))))
    ELSE searchParams

addNestedParam(searchParams, prefix, key, subKey, value) ==
  IF Defined(value)
    THEN SearchParamsSet(searchParams, prefix \o "[" \o key \o "][" \o subKey \o "]",
                         encodeURIComponent(encodeURIComponent(String(value))))
    ELSE searchParams

RECURSIVE AddNestedEntries(_, _, _, _, _)
AddNestedEntries(searchParams, prefix, key, fields, i) ==
  IF i > Len(fields) THEN searchParams
  ELSE AddNestedEntries(
         addNestedParam(searchParams, prefix, key, fields[i].key, fields[i].value),
         prefix, key, fields, i + 1)

RECURSIVE AddEntries(_, _, _, _)
AddEntries(searchParams, prefix, entries, i) ==
  IF i > Len(entries) THEN searchParams
  ELSE LET e == entries[i] IN
       AddEntries(
         IF e.object THEN AddNestedEntries(searchParams, prefix, e.key, e.fields, 1)
         ELSE addParam(searchParams, prefix, e.key, e.value),
         prefix, entries, i + 1)

RECURSIVE SearchParamsToString(_, _)
SearchParamsToString(searchParams, i) ==
  IF i > Len(searchParams) THEN ""
  ELSE (IF i > 1 THEN "&" ELSE "")
         \o FormUrlEncode(searchParams[i].name) \o "=" \o FormUrlEncode(searchParams[i].value)
         \o SearchParamsToString(searchParams, i + 1)

\* the values the builder passes to encodeURIComponent
EncodedValues(entries) ==
  {entries[i].value : i \in {j \in DOMAIN entries : ~entries[j].object}}
    \cup UNION {{entries[i].fields[k].value : k \in DOMAIN entries[i].fields} :
                 i \in {j \in DOMAIN entries : entries[j].object}}

PreprocessorBaseUrl == "https://preprocess.proxy.feedonomics.com/preprocess/run_preprocess.php"

\* connection_info and file_info are entry lists (file_info None when not given);
\* the result is the URL, or the exception that escapes
generateBigCommercePreprocessorUrl(connection_info, file_info) ==
  LET fileEntries == IF file_info = None THEN <<>> ELSE file_info[1]
      malformed == \E v \in EncodedValues(connection_info) \cup EncodedValues(fileEntries) :
                     Defined(v) /\ UriMalformed(String(v))
      base == addParam(addParam(<<>>, "connection_info", "client", "bigcommerce"),
                       "connection_info", "protocol", "api")
      withConnection == AddEntries(base, "connection_info", connection_info, 1)
      withFile == AddEntries(withConnection, "file_info", fileEntries, 1)
  IN IF malformed THEN [url |-> Undef, thrown |-> Some("URI malformed")]
     ELSE [url |-> PreprocessorBaseUrl \o "?" \o SearchParamsToString(withFile, 1),
           thrown |-> None]

GENERATE == "generateBigCommercePreprocessorUrl"

\* the values tried in a field of connection_info or file_info
UrlValues ==
  {Undef, Null, "", Zero, "true", "test-token", "test&token", "abc/123",
   "https://s.example.com?param=value", "a b+c", "100%", "%41"}
NestedUrlValues == {Undef, Null, "", "1", "a&b=c/d?e"}

UrlInputs ==
  {[connection_info |->
      <<Scalar("access_token", v),
        Nested("filters", <<[key |-> "is_visible", value |-> w]>>)>>,
    file_info |-> f] :
     v \in UrlValues, w \in NestedUrlValues,
     f \in {None, Some(<<Scalar("request_type", "get")>>),
            Some(<<Scalar("request_type", Null), Scalar("output_compressed", "x y")>>)}}

\* a caller builds a preprocessor URL; the method is synchronous
Generate(p, params) ==
  /\ Constructed
  /\ AllIdle
  /\ LET generated == generateBigCommercePreprocessorUrl(params.connection_info,
                                                         params.file_info)
     IN proc' = [proc EXCEPT ![p] =
                   [IdleProc EXCEPT !.op = GENERATE, !.pc = "done",
                                    !.input = Some(params),
                                    !.output = IF generated.thrown = None
                                                 THEN Some(generated.url) ELSE None,
                                    !.thrown = generated.thrown]]
  /\ UNCHANGED session

(***************************************************************************)
(* FdxService.setupBigCommerceIntegration.  The workflow is suspended at   *)
(* each awaited client method; one action starts it and one action per     *)
(* awaited step takes that step's result and runs the code up to the next  *)
(* await or return.                                                        *)
(***************************************************************************)
SETUP == "setupBigCommerceIntegration"

BigCommerceSetupParams(accessToken, userEmail, groupName, importSchedule, buildTemplate) ==
  [accountName |-> "Test Store", storeHash |-> "abc123", storeUrl |-> Undef,
   accessToken |-> accessToken, clientId |-> Undef, channelId |-> "12345",
   userEmail |-> userEmail, vaultEntryName |-> Undef, dbName |-> Undef,
   groupName |-> groupName, importSchedule |-> importSchedule,
   buildTemplate |-> buildTemplate]

\* every combination of optional inputs with a well-formed token, and two
\* parameter sets whose token cannot be URI-encoded
SetupParams ==
  {BigCommerceSetupParams("test_token", e, g, s, b) :
      e \in {Undef, "", "test@example.com"},
      g \in {Undef, "BigCommerce"},
      s \in {None, Some([day |-> "", hour |-> "*/4", minute |-> "0"])},
      b \in {"", "bigcommerce_template"}}
    \cup {BigCommerceSetupParams("bad" \o LoneSurrogate, e, Undef, None, Undef) :
            e \in {Undef, "test@example.com"}}

\* new Date(Date.now() + one year).toISOString().split('T')[0]
ExpirationDate == "2027-11-01"

\* JSON.stringify of the credentials object
CredentialsJson(params) ==
  "{\"access_token\":\"" \o String(params.accessToken)
    \o "\",\"store_hash\":\"" \o String(params.storeHash)
    \o "\",\"client_id\":\"" \o String(Or(params.clientId, ""))
    \o "\",\"channel_id\":\"" \o String(Or(params.channelId, "")) \o "\"}"

SetupVaultEntry(params) ==
  <<"name", Or(params.vaultEntryName, "bc_credentials"),
    "expiration", ExpirationDate,
    "credentials_type", "none",
    "credentials", CredentialsJson(params)>>

SetupStoreUrl(params) ==
  Or(params.storeUrl, "https://store-" \o String(params.storeHash) \o ".mybigcommerce.com/")

\* importConfig.preprocess_info.connection_info, in key order
SetupConnectionInfo(params) ==
  <<Scalar("client", "bigcommerce"),
    Scalar("protocol", "api"),
    Scalar("access_token", params.accessToken),
    Scalar("client_id", Or(params.clientId, "")),
    Scalar("include", "products,category_tree"),
    Nested("filters", <<>>),
    Nested("price_list", <<[key |-> "currencies", value |-> ""], [key |-> "ids", value |-> ""]>>),
    Nested("location_inventory", <<[key |-> "ids", value |-> ""]>>),
    Scalar("store_hash", params.storeHash),
    Scalar("store_url", SetupStoreUrl(params)),
    Scalar("show_empty_fields", ""),
    Scalar("additional_image_sizes", "false"),
    Scalar("additional_options", ""),
    Scalar("additional_parent_fields", ""),
    Scalar("additional_variant_fields", ""),
    Scalar("to_columns", ""),
    Scalar("to_columns_keep_both", "false")>>

SetupFileInfo == <<Scalar("request_type", "get"), Scalar("output_compressed", "true")>>

\* the createImport body: the fields of importConfig, connection_info flattened
SetupImportConfig(params, url) ==
  <<"file_location", "preprocess_script", "join_type", "product_feed",
    "name", "BC Product Import", "tags.platform", "Bigcommerce", "timeout", "1800",
    "do_import", "false", "do_notify", "false", "notification_email", Null,
    "cron", "0 * * * *", "url", url,
    "connection_info.access_token", params.accessToken,
    "connection_info.client_id", Or(params.clientId, ""),
    "connection_info.store_hash", params.storeHash,
    "connection_info.store_url", SetupStoreUrl(params)>>

SetupSchedule(importSchedule) ==
  <<"day", Or(importSchedule.day, "*"),
    "hour", Or(importSchedule.hour, "*"),
    "minute", Or(importSchedule.minute, "0")>>

\* return { success: false, error: `<label>: ${result.error}` };
\* SetupFail_rollback is the variant that first deletes the database the run created
SetupFail_rollback(pr, label, env) ==
  IF pr.got.dbId # Undef
    THEN Await(pr, "deleteDb", deleteDb(pr.got.dbId))
    ELSE Finish(pr, Completion(
           ServiceResponse(FALSE, None, Some(label \o ": " \o ErrorText(env)), None)))

SetupFail(pr, label, env) ==
  Finish(pr, Completion(
    ServiceResponse(FALSE, None, Some(label \o ": " \o ErrorText(env)), None)))

\* the catch clause around the whole workflow; SetupCatch_rethrow is the
\* variant that lets the exception go on to the caller
SetupCatch_rethrow(pr, message) == Finish(pr, Raised(String(message)))

SetupCatch(pr, message) ==
  Finish(pr, Completion(
    ServiceResponse(FALSE, None, Some("BigCommerce setup failed: " \o String(message)), None)))

\* an exception raised inside the try block reaches the catch clause
SetupThrow(pr, message) == SetupCatch([pr EXCEPT !.raised = Some(message)], message)

\* the success return; SetupSuccess_noEmail is the variant whose summary leaves
\* out the invited user's email
SetupSuccess_noEmail(pr) ==
  Finish(pr, Completion(
    ServiceResponse(TRUE,
                    Some([success |-> TRUE,
                          accountId |-> pr.loc.accountId,
                          dbId |-> pr.loc.dbId,
                          importId |-> pr.loc.importId,
                          vaultEntryId |-> pr.loc.vaultId,
                          primaryUserEmail |-> Undef]),
                    None, None)))

SetupSuccess(pr) ==
  Finish(pr, Completion(
    ServiceResponse(TRUE,
                    Some([success |-> TRUE,
                          accountId |-> pr.loc.accountId,
                          dbId |-> pr.loc.dbId,
                          importId |-> pr.loc.importId,
                          vaultEntryId |-> pr.loc.vaultId,
                          primaryUserEmail |-> pr.params.userEmail]),
                    None, None)))

\* Step 8
SetupBuild(pr) ==
  IF Truthy(pr.params.buildTemplate)
    THEN Await(pr, "applyAutomateBuildTemplate",
               applyAutomateBuildTemplate(pr.loc.importId, pr.params.buildTemplate))
    ELSE SetupSuccess(pr)

\* Step 7
SetupScheduleStep(pr) ==
  IF pr.params.importSchedule # None
    THEN Await(pr, "updateImportSchedule",
               updateImportSchedule(pr.loc.importId,
                                    SetupSchedule(pr.params.importSchedule[1])))
    ELSE SetupBuild(pr)

\* Step 6
SetupImport(pr) ==
  LET generated == generateBigCommercePreprocessorUrl(SetupConnectionInfo(pr.params),
                                                      Some(SetupFileInfo))
  IN IF generated.thrown # None
       THEN SetupThrow(pr, generated.thrown[1])
       ELSE Await(pr, "createImport",
                  createImport(SetupImportConfig(pr.params, generated.url)))

\* Step 5; SetupVault_ofAccount is the variant that addresses the vault entry
\* to the account's identifier
SetupVault_ofAccount(pr) ==
  Await(pr, "addDbVaultEntry", addDbVaultEntry(pr.loc.accountId, SetupVaultEntry(pr.params)))

SetupVault(pr) ==
  Await(pr, "addDbVaultEntry", addDbVaultEntry(pr.loc.dbId, SetupVaultEntry(pr.params)))

\* Step 4; SetupGroup_active is the variant that moves the active database
SetupGroup_active(pr) ==
  IF Truthy(pr.params.groupName)
    THEN Await(pr, "moveDbintoNewDbGroup",
               moveDbintoNewDbGroup(getDbId, pr.params.groupName))
    ELSE SetupVault(pr)

SetupGroup(pr) ==
  IF Truthy(pr.params.groupName)
    THEN Await(pr, "moveDbintoNewDbGroup",
               moveDbintoNewDbGroup(pr.loc.dbId, pr.params.groupName))
    ELSE SetupVault(pr)

\* Step 3
SetupDb(pr) ==
  Await(pr, "createDb",
        createDb(pr.loc.accountId,
                 Or(pr.params.dbName, "BC Store " \o String(pr.params.storeHash))))

\* Step 2; SetupInvite_always is the variant that sends the invitation whether
\* or not an email was given
SetupInvite_always(pr) ==
  Await(pr, "invitePrimaryUser",
        invitePrimaryUser(pr.loc.accountId, pr.params.userEmail))

SetupInvite(pr) ==
  IF Truthy(pr.params.userEmail)
    THEN Await(pr, "invitePrimaryUser",
               invitePrimaryUser(pr.loc.accountId, pr.params.userEmail))
    ELSE SetupDb(pr)

Awaiting(p, step) ==
  /\ proc[p].pc = "await"
  /\ proc[p].op = SETUP
  /\ proc[p].step = step

Noted(pr, env) ==
  [pr EXCEPT !.last = [step |-> pr.step, success |-> env.success, error |-> env.error],
             !.received = pr.received + 1]

\* Step 1; setupBigCommerceIntegration_lookup is the variant that starts by
\* fetching the accounts
setupBigCommerceIntegration_lookup(p, params) ==
  /\ Constructed
  /\ AllIdle
  /\ proc' = [proc EXCEPT ![p] =
                Await([IdleProc EXCEPT !.op = SETUP, !.params = params],
                      "accounts", accounts)]
  /\ UNCHANGED session

setupBigCommerceIntegration(p, params) ==
  /\ Constructed
  /\ AllIdle
  /\ proc' = [proc EXCEPT ![p] =
                Await([IdleProc EXCEPT !.op = SETUP, !.params = params],
                      "createBigCommerceAccount",
                      createBigCommerceAccount(params.accountName))]
  /\ UNCHANGED session

\* Step 1 of a workflow started without waiting for the other callers of the
\* client
setupBigCommerceIntegrationShared(p, params) ==
  /\ Constructed
  /\ proc[p].pc = "idle"
  /\ proc' = [proc EXCEPT ![p] =
                Await([IdleProc EXCEPT !.op = SETUP, !.params = params],
                      "createBigCommerceAccount",
                      createBigCommerceAccount(params.accountName))]
  /\ UNCHANGED session

accountResult(p, outcome) ==
  /\ Awaiting(p, "createBigCommerceAccount")
  /\ LET c == Received(proc[p], outcome) IN
     proc' = [proc EXCEPT ![p] =
       IF c.thrown # None THEN SetupThrow(proc[p], c.thrown[1])
       ELSE LET env == c.env[1]
                pr == Noted(Intercepted(proc[p], outcome), env)
            IN IF ~env.success \/ Falsy(Field(env.data, "id"))
                 THEN SetupFail(pr, "Failed to create account", env)
                 ELSE SetupInvite([pr EXCEPT !.loc.accountId = env.data[1].id,
                                             !.got.accountId = env.data[1].id])]
  /\ UNCHANGED session

\* variant: the result of the invitation is not looked at
inviteResult_unchecked(p, outcome) ==
  /\ Awaiting(p, "invitePrimaryUser")
  /\ LET c == Received(proc[p], outcome) IN
     proc' = [proc EXCEPT ![p] =
       IF c.thrown # None THEN SetupThrow(proc[p], c.thrown[1])
       ELSE SetupDb(Noted(Intercepted(proc[p], outcome), c.env[1]))]
  /\ UNCHANGED session

inviteResult(p, outcome) ==
  /\ Awaiting(p, "invitePrimaryUser")
  /\ LET c == Received(proc[p], outcome) IN
     proc' = [proc EXCEPT ![p] =
       IF c.thrown # None THEN SetupThrow(proc[p], c.thrown[1])
       ELSE LET env == c.env[1]
                pr == Noted(Intercepted(proc[p], outcome), env)
            IN IF ~env.success
                 THEN SetupFail(pr, "Failed to invite user", env)
                 ELSE SetupDb(pr)]
  /\ UNCHANGED session

\* dbResult_noSet is the variant that leaves the active database as it was
dbResult_noSet(p, outcome) ==
  /\ Awaiting(p, "createDb")
  /\ LET c == Received(proc[p], outcome)
         created == c.thrown = None /\ c.env[1].success /\ Truthy(Field(c.env[1].data, "id"))
     IN
     /\ proc' = [proc EXCEPT ![p] =
          IF c.thrown # None THEN SetupThrow(proc[p], c.thrown[1])
          ELSE LET env == c.env[1]
                   pr == Noted(Intercepted(proc[p], outcome), env)
               IN IF ~env.success \/ Falsy(Field(env.data, "id"))
                    THEN SetupFail(pr, "Failed to create database", env)
                    ELSE SetupGroup([pr EXCEPT !.loc.dbId = env.data[1].id,
                                               !.got.dbId = env.data[1].id])]
     /\ dbId' = dbId
  /\ UNCHANGED <<construction, client, apiToken, baseUrl, verbose>>

dbResult(p, outcome) ==
  /\ Awaiting(p, "createDb")
  /\ LET c == Received(proc[p], outcome)
         created == c.thrown = None /\ c.env[1].success /\ Truthy(Field(c.env[1].data, "id"))
     IN
     /\ proc' = [proc EXCEPT ![p] =
          IF c.thrown # None THEN SetupThrow(proc[p], c.thrown[1])
          ELSE LET env == c.env[1]
                   pr == Noted(Intercepted(proc[p], outcome), env)
               IN IF ~env.success \/ Falsy(Field(env.data, "id"))
                    THEN SetupFail(pr, "Failed to create database", env)
                    ELSE SetupGroup([pr EXCEPT !.loc.dbId = env.data[1].id,
                                               !.got.dbId = env.data[1].id])]
     /\ dbId' = IF created THEN String(c.env[1].data[1].id) ELSE dbId
  /\ UNCHANGED <<construction, client, apiToken, baseUrl, verbose>>

groupResult(p, outcome) ==
  /\ Awaiting(p, "moveDbintoNewDbGroup")
  /\ LET c == Received(proc[p], outcome) IN
     proc' = [proc EXCEPT ![p] =
       IF c.thrown # None THEN SetupThrow(proc[p], c.thrown[1])
       ELSE LET env == c.env[1]
                pr == Noted(Intercepted(proc[p], outcome), env)
            IN IF ~env.success
                 THEN SetupFail(pr, "Failed to move database to group", env)
                 ELSE SetupVault(pr)]
  /\ UNCHANGED session

vaultResult(p, outcome) ==
  /\ Awaiting(p, "addDbVaultEntry")
  /\ LET c == Received(proc[p], outcome) IN
     proc' = [proc EXCEPT ![p] =
       IF c.thrown # None THEN SetupThrow(proc[p], c.thrown[1])
       ELSE LET env == c.env[1]
                pr == Noted(Intercepted(proc[p], outcome), env)
            IN IF ~env.success
                 THEN SetupFail(pr, "Failed to create vault entry", env)
                 ELSE SetupImport([pr EXCEPT !.loc.vaultId = Field(env.data, "new_row_id"),
                                             !.got.vaultId = Field(env.data, "new_row_id")])]
  /\ UNCHANGED session

importResult(p, outcome) ==
  /\ Awaiting(p, "createImport")
  /\ LET c == Received(proc[p], outcome) IN
     proc' = [proc EXCEPT ![p] =
       IF c.thrown # None THEN SetupThrow(proc[p], c.thrown[1])
       ELSE LET env == c.env[1]
                pr == Noted(Intercepted(proc[p], outcome), env)
            IN IF ~env.success \/ Falsy(Field(env.data, "id"))
                 THEN SetupFail(pr, "Failed to create import", env)
                 ELSE SetupScheduleStep([pr EXCEPT !.loc.importId = env.data[1].id,
                                                   !.got.importId = env.data[1].id])]
  /\ UNCHANGED session

scheduleResult(p, outcome) ==
  /\ Awaiting(p, "updateImportSchedule")
  /\ LET c == Received(proc[p], outcome) IN
     proc' = [proc EXCEPT ![p] =
       IF c.thrown # None THEN SetupThrow(proc[p], c.thrown[1])
       ELSE LET env == c.env[1]
                pr == Noted(Intercepted(proc[p], outcome), env)
            IN IF ~env.success
                 THEN SetupFail(pr, "Failed to update import schedule", env)
                 ELSE SetupBuild(pr)]
  /\ UNCHANGED session

buildResult(p, outcome) ==
  /\ Awaiting(p, "applyAutomateBuildTemplate")
  /\ LET c == Received(proc[p], outcome) IN
     proc' = [proc EXCEPT ![p] =
       IF c.thrown # None THEN SetupThrow(proc[p], c.thrown[1])
       ELSE LET env == c.env[1]
                pr == Noted(Intercepted(proc[p], outcome), env)
            IN IF ~env.success
                 THEN SetupFail(pr, "Failed to apply build template", env)
                 ELSE SetupSuccess(pr)]
  /\ UNCHANGED session

(***************************************************************************)
(* FdxService operations around one client call.                           *)
(***************************************************************************)
\* if (!result.success) return { success: false, error: `<label>: ${result.error}` };
\* return { success: true, data: result.data };
Relabelled(label, env) ==
  IF ~env.success
    THEN ServiceResponse(FALSE, None, Some(label \o ": " \o ErrorText(env)), None)
    ELSE ServiceResponse(TRUE, env.data, None, None)

NoDatabaseSelected == ServiceResponse(FALSE, None, Some("No database selected"), None)

Running(p, op) ==
  /\ proc[p].pc = "await"
  /\ proc[p].op = op

\* runImport_unguarded is the variant without the test of the active database
runImport_unguarded(p, importId) ==
  /\ Constructed
  /\ AllIdle
  /\ proc' = [proc EXCEPT ![p] =
       Await([IdleProc EXCEPT !.op = "runImport", !.db0 = getDbId], "request",
             request("POST", "/dbs/" \o String(getDbId) \o "/imports/" \o String(importId)
                               \o "/run", <<>>))]
  /\ UNCHANGED session

runImport(p, importId) ==
  /\ Constructed
  /\ AllIdle
  /\ LET pr == [IdleProc EXCEPT !.op = "runImport", !.db0 = getDbId] IN
     proc' = [proc EXCEPT ![p] =
       IF Falsy(getDbId) THEN Finish(pr, Completion(NoDatabaseSelected))
       ELSE Await(pr, "request",
                  request("POST", "/dbs/" \o String(getDbId) \o "/imports/"
                                    \o String(importId) \o "/run", <<>>))]
  /\ UNCHANGED session

runImportResult(p, outcome) ==
  /\ Running(p, "runImport")
  /\ LET c == Received(proc[p], outcome) IN
     proc' = [proc EXCEPT ![p] =
       IF c.thrown # None THEN Finish(proc[p], c)
       ELSE Finish(Noted(Intercepted(proc[p], outcome), c.env[1]),
                   Completion(Relabelled("Error running import", c.env[1])))]
  /\ UNCHANGED session

runExport(p, exportId) ==
  /\ Constructed
  /\ AllIdle
  /\ LET pr == [IdleProc EXCEPT !.op = "runExport", !.db0 = getDbId] IN
     proc' = [proc EXCEPT ![p] =
       IF Falsy(getDbId) THEN Finish(pr, Completion(NoDatabaseSelected))
       ELSE Await(pr, "request",
                  request("POST", "/dbs/" \o String(getDbId) \o "/exports/"
                                    \o String(exportId) \o "/run", <<>>))]
  /\ UNCHANGED session

runExportResult(p, outcome) ==
  /\ Running(p, "runExport")
  /\ LET c == Received(proc[p], outcome) IN
     proc' = [proc EXCEPT ![p] =
       IF c.thrown # None THEN Finish(proc[p], c)
       ELSE Finish(Noted(Intercepted(proc[p], outcome), c.env[1]),
                   Completion(Relabelled("Error running export", c.env[1])))]
  /\ UNCHANGED session

(***************************************************************************)
(* FdxService get-or-create operations.  Each is suspended at the client   *)
(* method it awaits (proc.step); args holds its arguments, entries the     *)
(* vault rows it fetched, existing the entry its lookup found and export_  *)
(* the export it goes on to schedule.                                      *)
(***************************************************************************)
MAIN_IMPORT_NAME == "BigCommerceImport"
EXPORT_NAME == "Export Google"
ACCOUNT_PREFIX == "BC-"
VaultPlaceholder == "{{feedonomics::vault::bc_credentials::access_token}}"

\* return { success: false, error: `<label>: ${result.error}` }
Failed(label, env) ==
  ServiceResponse(FALSE, None, Some(label \o ": " \o ErrorText(env)), None)

\* return { success: true, data }
Succeeded(data) == ServiceResponse(TRUE, data, None, None)

\* result.error
ErrorOf(env) == IF env.error = None THEN Undef ELSE env.error[1]

\* result.data read as an array
Entries(env) == IF env.data = None THEN <<>> ELSE env.data[1]

\* array.find(test), given the elements that pass the test in order: the first
\* of them, if any
FindFirst(passing) == IF passing = <<>> THEN None ELSE Some(passing[1])

\* array.reduce into an object keyed by a field, then object[key], given the
\* elements with that key in order: the last of them, if any
Keyed(withKey) == IF withKey = <<>> THEN None ELSE Some(withKey[Len(withKey)])

Starting(op, args) == [IdleProc EXCEPT !.op = op, !.args = Some(args), !.db0 = dbId]

\* FdxClient.moveDbToGroup(payload); clientMoveDbToGroup_byDb is the variant
\* that addresses the database instead of the group
clientMoveDbToGroup_byDb(payload) ==
  request("POST", "/groups/" \o String(payload.db_id) \o "/dbs",
          <<"db_id", payload.db_id, "group_id", payload.group_id,
            "group_name", payload.group_name>>)

clientMoveDbToGroup(payload) ==
  request("POST", "/groups/" \o String(payload.group_id) \o "/dbs",
          <<"db_id", payload.db_id, "group_id", payload.group_id,
            "group_name", payload.group_name>>)

getAccountName(storeId) == ACCOUNT_PREFIX \o String(storeId)

\* retrieveAccounts, after its await
retrieveAccounts(env) ==
  IF ~env.success THEN Failed("Error getting accounts", env)
  ELSE Succeeded(Some(Entries(env)))

getOrCreateAccount(p, storeId) ==
  /\ Constructed
  /\ AllIdle
  /\ proc' = [proc EXCEPT ![p] =
       Await(Starting("getOrCreateAccount", [storeId |-> storeId]), "accounts", accounts)]
  /\ UNCHANGED session

getOrCreateAccountResult(p, outcome) ==
  /\ Running(p, "getOrCreateAccount")
  /\ LET c == Received(proc[p], outcome) IN
     proc' = [proc EXCEPT ![p] =
       IF c.thrown # None THEN Finish(proc[p], c)
       ELSE LET env == c.env[1]
                pr == Noted(Intercepted(proc[p], outcome), env)
                accountName == getAccountName(pr.args[1].storeId)
            IN IF pr.step = "accounts"
                 THEN LET accountsResult == retrieveAccounts(env) IN
                      IF ~accountsResult.success
                        THEN Finish(pr, Completion(accountsResult))
                        ELSE LET account == Keyed(SelectSeq(accountsResult.data[1],
                                                  LAMBDA a : a.account_name = accountName))
                             IN IF account # None
                                  THEN Finish(pr, Completion(Succeeded(account)))
                                  ELSE Await(pr, "createBigCommerceAccount",
                                             createBigCommerceAccount(accountName))
                 ELSE Finish(pr, Completion(Relabelled("Error creating account", env)))]
  /\ UNCHANGED session

\* findGroup, after its await
findGroup(env) ==
  IF ~env.success THEN Failed("Error getting db groups", env)
  ELSE Succeeded(FindFirst(SelectSeq(Entries(env), LAMBDA group : StartsWith(group.name, ACCOUNT_PREFIX))))

moveDbToGroup(p, accountId, accountName) ==
  /\ Constructed
  /\ AllIdle
  /\ proc' = [proc EXCEPT ![p] =
       Await(Starting("moveDbToGroup", [accountId |-> accountId, accountName |-> accountName]),
             "groups", groups(accountId))]
  /\ UNCHANGED session

moveDbToGroupResult(p, outcome) ==
  /\ Running(p, "moveDbToGroup")
  /\ LET c == Received(proc[p], outcome) IN
     proc' = [proc EXCEPT ![p] =
       IF c.thrown # None THEN Finish(proc[p], c)
       ELSE LET env == c.env[1]
                pr == Noted(Intercepted(proc[p], outcome), env)
            IN IF pr.step = "groups"
                 THEN LET existingGroupResult == findGroup(env) IN
                      IF ~existingGroupResult.success
                        THEN Finish(pr, Completion(existingGroupResult))
                        ELSE IF existingGroupResult.data # None
                          THEN Await([pr EXCEPT !.existing = existingGroupResult.data],
                                     "moveDbToGroup",
                                     clientMoveDbToGroup(
                                       [db_id |-> Zero,
                                        group_id |-> existingGroupResult.data[1].id,
                                        group_name |-> pr.args[1].accountName]))
                          ELSE Await(pr, "createGroup", createGroup(pr.args[1].accountName))
                 ELSE Finish(pr, Completion(Relabelled("Error moving db to group", env)))]
  /\ UNCHANGED session

\* the part of the connection info that reaches the URL and the request body
buildConnectionInfo(user, channelId, mode) ==
  <<Scalar("access_token", VaultPlaceholder),
    Scalar("client_id", user.id),
    Scalar("store_hash", user.storeHash),
    Scalar("store_url", "https://store-" \o String(user.storeHash) \o ".mybigcommerce.com"),
    Nested("channel_ids", <<[key |-> "0", value |-> channelId]>>),
    Nested("filters", <<[key |-> "is_visible", value |-> "1"]>>),
    Scalar("include", "products"),
    Scalar("additional_parent_fields", "price,sale_price"),
    Scalar("additional_variant_fields", "price,sale_price"),
    Scalar("pull_sample", IF mode = "create" THEN "1" ELSE Zero)>>

buildImportUrl(user, channelId, mode) ==
  generateBigCommercePreprocessorUrl(buildConnectionInfo(user, channelId, mode),
                                     Some(<<Scalar("request_type", "get")>>))

\* the import configuration as the request body, or the exception of the URL builder
buildImportConfig(user, channelId, isCreate) ==
  LET mode == IF isCreate THEN "create" ELSE "update"
      generated == buildImportUrl(user, channelId, mode)
  IN [thrown |-> generated.thrown,
      config |-> <<"name", MAIN_IMPORT_NAME,
                   "additional_options", "google_field,category_tree",
                   "url", generated.url,
                   "connection_info.access_token", VaultPlaceholder,
                   "connection_info.client_id", user.id,
                   "connection_info.store_hash", user.storeHash,
                   "connection_info.pull_sample", IF isCreate THEN "1" ELSE Zero>>
                  \o (IF isCreate THEN <<>> ELSE <<"do_import", "false">>)]

\* retrieveImport, after its await
retrieveImport(env) ==
  IF ~env.success THEN Failed("Error getting imports", env)
  ELSE Succeeded(FindFirst(SelectSeq(Entries(env), LAMBDA i : i.name = MAIN_IMPORT_NAME)))

createOrUpdateImport(p, user, channelId, isCreate) ==
  /\ Constructed
  /\ AllIdle
  /\ LET pr == Starting("createOrUpdateImport",
                        [user |-> user, channelId |-> channelId, isCreate |-> isCreate])
         built == buildImportConfig(user, channelId, isCreate)
     IN proc' = [proc EXCEPT ![p] =
          IF built.thrown # None THEN Finish(pr, Raised(built.thrown[1]))
          ELSE Await(pr, "imports", imports)]
  /\ UNCHANGED session

createOrUpdateImportResult(p, outcome) ==
  /\ Running(p, "createOrUpdateImport")
  /\ LET c == Received(proc[p], outcome) IN
     proc' = [proc EXCEPT ![p] =
       IF c.thrown # None THEN Finish(proc[p], c)
       ELSE LET env == c.env[1]
                pr == Noted(Intercepted(proc[p], outcome), env)
                a == pr.args[1]
                importConfig == buildImportConfig(a.user, a.channelId, a.isCreate).config
            IN CASE pr.step = "imports" ->
                      LET existingImport == retrieveImport(env) IN
                      IF existingImport.success /\ existingImport.data # None
                        THEN Await([pr EXCEPT !.existing = existingImport.data],
                                   "updateImport",
                                   updateImport(existingImport.data[1].id, importConfig))
                        ELSE Await(pr, "createImport", createImport(importConfig))
                 [] pr.step = "updateImport" ->
                      IF ~env.success
                        THEN Finish(pr, Completion(Failed("Error updating import", env)))
                        ELSE Finish(pr, Completion(Succeeded(pr.existing)))
                 [] OTHER ->
                      Finish(pr, Completion(Relabelled("Error creating import", env)))]
  /\ UNCHANGED session

\* the export configuration as the request body
buildExportConfig(ftpCredentials, filename) ==
  <<"name", EXPORT_NAME, "file_name", filename, "protocol", "sftp",
    "host", ftpCredentials.host, "username", ftpCredentials.username,
    "password", ftpCredentials.password,
    "export_selector", "[can_export] equal 'true'",
    "tags.export_template", "google_shopping">>

\* getExistingExport, after its await
getExistingExport(env) ==
  IF ~env.success THEN Failed("Error getting exports", env)
  ELSE Succeeded(FindFirst(SelectSeq(Entries(env), LAMBDA i : i.name = EXPORT_NAME)))

\* handleExistingExport, after its await; handleExistingExport_response is the
\* variant that hands back the body of the update response
handleExistingExport_response(pr, env) ==
  IF pr.step = "updateExport"
    THEN IF ~env.success THEN Failed("Error updating exports", env)
         ELSE Succeeded(env.data)
    ELSE Relabelled("Error creating exports", env)

handleExistingExport(pr, env) ==
  IF pr.step = "updateExport"
    THEN IF ~env.success THEN Failed("Error updating exports", env)
         ELSE Succeeded(pr.existing)
    ELSE Relabelled("Error creating exports", env)

\* runExportSchedule, up to its await: export_.id of a missing export throws
runExportSchedule(pr, export_, timeSlot) ==
  IF export_ = None
    THEN Finish(pr, Raised("Cannot read properties of undefined (reading 'id')"))
    ELSE Await([pr EXCEPT !.export_ = export_], "scheduleExport",
               scheduleExport(export_[1].id,
                              <<"day", "*", "hour", timeSlot.hour,
                                "minute", timeSlot.minutes>>))

createOrUpdateExport(p, ftpCredentials, filename, timeSlot) ==
  /\ Constructed
  /\ AllIdle
  /\ proc' = [proc EXCEPT ![p] =
       Await(Starting("createOrUpdateExport",
                      [ftpCredentials |-> ftpCredentials, filename |-> filename,
                       timeSlot |-> timeSlot]),
             "exports", exports)]
  /\ UNCHANGED session

createOrUpdateExportResult(p, outcome) ==
  /\ Running(p, "createOrUpdateExport")
  /\ LET c == Received(proc[p], outcome) IN
     proc' = [proc EXCEPT ![p] =
       IF c.thrown # None THEN Finish(proc[p], c)
       ELSE LET env == c.env[1]
                pr == Noted(Intercepted(proc[p], outcome), env)
                a == pr.args[1]
                exportConfig == buildExportConfig(a.ftpCredentials, a.filename)
            IN CASE pr.step = "exports" ->
                      LET currentExportResponse == getExistingExport(env) IN
                      IF ~currentExportResponse.success
                        THEN Finish(pr, Completion(Failed("Getting existing export",
                                                          currentExportResponse)))
                        ELSE IF currentExportResponse.data # None
                          THEN Await([pr EXCEPT !.existing = currentExportResponse.data],
                                     "updateExport",
                                     updateExport(currentExportResponse.data[1].id,
                                                  exportConfig))
                          ELSE Await(pr, "createExport", createExport(exportConfig))
                 [] pr.step \in {"updateExport", "createExport"} ->
                      LET export_ == handleExistingExport(pr, env) IN
                      IF ~export_.success
                        THEN Finish(pr, Completion(Failed("Creating or updating exports",
                                                          export_)))
                        ELSE IF a.timeSlot # None
                          THEN runExportSchedule(pr, export_.data, a.timeSlot[1])
                          ELSE Finish(pr, Completion(export_))
                 [] OTHER ->
                      IF ~env.success
                        THEN Finish(pr, Completion(ServiceResponse(FALSE, None,
                               Some("Error setting running export schedule in FDX"), None)))
                        ELSE Finish(pr, Completion(Succeeded(pr.export_)))]
  /\ UNCHANGED session

\* createOrUpdateVaultEntry, up to its await; createOrUpdateVaultEntry_create is
\* the variant that never looks for the entry
createOrUpdateVaultEntry_create(pr, entries, accessToken) ==
  Await(pr, "createVault",
        createVault(<<"name", "bc_credentials",
                      "expiration", ExpirationDate,
                      "credentials_type", "none",
                      "credentials",
                      "{\"access_token\":\"" \o String(accessToken) \o "\"}">>))

createOrUpdateVaultEntry(pr, entries, accessToken) ==
  LET entry == FindFirst(SelectSeq(entries, LAMBDA e : e.name = "bc_credentials"))
      entryPayload == <<"name", "bc_credentials",
                        "expiration", ExpirationDate,
                        "credentials_type", "none",
                        "credentials",
                        "{\"access_token\":\"" \o String(accessToken) \o "\"}">>
  IN IF entry # None
       THEN Await([pr EXCEPT !.existing = entry], "updateVault",
                  updateVault(entry[1].id, entryPayload))
       ELSE Await(pr, "createVault", createVault(entryPayload))

\* deleteOldEntry, up to its await: null when there is no old entry;
\* deleteOldEntry_skip is the variant that leaves an old entry alone
deleteOldEntry_skip(pr, entries) == None

deleteOldEntry(pr, entries) ==
  LET oldEntry == FindFirst(SelectSeq(entries, LAMBDA entry : entry.name = "BigCommerce Credentials"))
  IN IF oldEntry = None THEN None
     ELSE Some(Await(pr, "deleteVault", deleteVault(oldEntry[1].id)))

\* vaultResult.data?.data?.vault_rows || []
VaultRows(env) ==
  IF env.data = None \/ env.data[1].data.vault_rows = None THEN <<>>
  ELSE env.data[1].data.vault_rows[1]

updateVaultEntries(p, accessToken) ==
  /\ Constructed
  /\ AllIdle
  /\ proc' = [proc EXCEPT ![p] =
       Await(Starting("updateVaultEntries", [accessToken |-> accessToken]), "vault", vault)]
  /\ UNCHANGED session

updateVaultEntriesResult(p, outcome) ==
  /\ Running(p, "updateVaultEntries")
  /\ LET c == Received(proc[p], outcome) IN
     proc' = [proc EXCEPT ![p] =
       IF c.thrown # None THEN Finish(proc[p], c)
       ELSE LET env == c.env[1]
                pr == Noted(Intercepted(proc[p], outcome), env)
                accessToken == pr.args[1].accessToken
            IN CASE pr.step = "vault" ->
                      IF ~env.success
                        THEN Finish(pr, Completion(Failed("Error getting vaults", env)))
                        ELSE LET held == [pr EXCEPT !.entries = VaultRows(env)]
                                 deleting == deleteOldEntry(held, held.entries)
                             IN IF deleting # None THEN deleting[1]
                                ELSE createOrUpdateVaultEntry(held, held.entries, accessToken)
                 [] pr.step = "deleteVault" ->
                      IF ~env.success
                        THEN Finish(pr, Completion(Failed("Error deleting vault", env)))
                        ELSE createOrUpdateVaultEntry(pr, pr.entries, accessToken)
                 [] OTHER ->
                      IF ~env.success
                        THEN Finish(pr, Completion(ServiceResponse(FALSE, None,
                               Some("Error creating vault: "
                                      \o String(Or(ErrorOf(env), "Unknown error"))),
                               None)))
                        ELSE Finish(pr, Completion(Succeeded(env.data)))]
  /\ UNCHANGED session

getFtpCredentials(p) ==
  /\ Constructed
  /\ AllIdle
  /\ proc' = [proc EXCEPT ![p] =
       Await(Starting("getFtpCredentials", <<>>), "ftpAccounts", ftpAccounts)]
  /\ UNCHANGED session

getFtpCredentialsResult(p, outcome) ==
  /\ Running(p, "getFtpCredentials")
  /\ LET c == Received(proc[p], outcome) IN
     proc' = [proc EXCEPT ![p] =
       IF c.thrown # None THEN Finish(proc[p], c)
       ELSE LET env == c.env[1]
                pr == Noted(Intercepted(proc[p], outcome), env)
            IN IF pr.step = "ftpAccounts"
                 THEN IF ~env.success
                        THEN Finish(pr, Completion(Failed("Error getting credentials", env)))
                        ELSE IF Len(Entries(env)) > 0
                          THEN Finish(pr, Completion(Succeeded(env.data)))
                          ELSE Await(pr, "createFtpAccounts", createFtpAccounts(<<>>))
                 ELSE Finish(pr, Completion(Relabelled("Error creating FTP credentials", env)))]
  /\ UNCHANGED session

(***************************************************************************)
(* FdxService operations over a list: one client call per element, in      *)
(* order.  args holds the list and results the payloads collected so far.  *)
(***************************************************************************)
\* results.push(result.data); PushResult_front is the variant that puts the
\* payload ahead of the earlier ones
PushResult_front(results, data) == <<data>> \o results

PushResult(results, data) == Append(results, data)

\* for (const transformer of transformers), up to the next await or the return
createTransformersLoop(pr) ==
  LET list == pr.args[1].list
      k == Len(pr.results)
  IN IF k < Len(list)
       THEN Await(pr, "createTransformer", createTransformer(list[k + 1]))
       ELSE Finish(pr, Completion(Succeeded(Some(pr.results))))

createTransformers(p, list) ==
  /\ Constructed
  /\ AllIdle
  /\ proc' = [proc EXCEPT ![p] =
       createTransformersLoop(Starting("createTransformers", [list |-> list]))]
  /\ UNCHANGED session

\* createTransformersResult_retry is the variant that tries the first element
\* once more when its call failed
createTransformersResult_retry(p, outcome) ==
  /\ Running(p, "createTransformers")
  /\ LET c == Received(proc[p], outcome) IN
     proc' = [proc EXCEPT ![p] =
       IF c.thrown # None THEN Finish(proc[p], c)
       ELSE LET env == c.env[1]
                pr == Noted(Intercepted(proc[p], outcome), env)
            IN IF ~env.success
                 THEN IF pr.received = 1
                        THEN createTransformersLoop(pr)
                        ELSE Finish(pr, Completion(Failed("Error creating transformer", env)))
                 ELSE createTransformersLoop(
                        [pr EXCEPT !.results = PushResult(pr.results, env.data)])]
  /\ UNCHANGED session

createTransformersResult(p, outcome) ==
  /\ Running(p, "createTransformers")
  /\ LET c == Received(proc[p], outcome) IN
     proc' = [proc EXCEPT ![p] =
       IF c.thrown # None THEN Finish(proc[p], c)
       ELSE LET env == c.env[1]
                pr == Noted(Intercepted(proc[p], outcome), env)
            IN IF ~env.success
                 THEN Finish(pr, Completion(Failed("Error creating transformer", env)))
                 ELSE createTransformersLoop(
                        [pr EXCEPT !.results = PushResult(pr.results, env.data)])]
  /\ UNCHANGED session

\* FdxService.updateDbFields: for (const field of fields)
serviceUpdateDbFieldsLoop(pr) ==
  LET fields == pr.args[1].list
      k == Len(pr.results)
  IN IF k < Len(fields)
       THEN Await(pr, "updateDbFields", updateDbFields(fields[k + 1]))
       ELSE Finish(pr, Completion(Succeeded(Some(pr.results))))

serviceUpdateDbFields(p, fields) ==
  /\ Constructed
  /\ AllIdle
  /\ proc' = [proc EXCEPT ![p] =
       serviceUpdateDbFieldsLoop(Starting("serviceUpdateDbFields", [list |-> fields]))]
  /\ UNCHANGED session

serviceUpdateDbFieldsResult(p, outcome) ==
  /\ Running(p, "serviceUpdateDbFields")
  /\ LET c == Received(proc[p], outcome) IN
     proc' = [proc EXCEPT ![p] =
       IF c.thrown # None THEN Finish(proc[p], c)
       ELSE LET env == c.env[1]
                pr == Noted(Intercepted(proc[p], outcome), env)
            IN IF ~env.success
                 THEN Finish(pr, Completion(Failed("Error updating db fields", env)))
                 ELSE serviceUpdateDbFieldsLoop(
                        [pr EXCEPT !.results = PushResult(pr.results, env.data)])]
  /\ UNCHANGED session

(***************************************************************************)
(* The system.                                                             *)
(***************************************************************************)
Unconstructed ==
  /\ construction = [attempted |-> FALSE, config |-> None, thrown |-> None]
  /\ client = None
  /\ apiToken = Undef
  /\ dbId = Undef
  /\ baseUrl = Undef
  /\ verbose = FALSE
  /\ proc = [p \in Procs |-> IdleProc]

\* under arbitrary answers no remote state is kept
Init == Unconstructed /\ remote = {}

Next ==
  \/ \E config \in Configs : constructor(config) /\ UNCHANGED remote
  \/ \E v \in DbIdArgs : setDbId(v) /\ UNCHANGED remote
  \/ \E p \in Procs, m \in Methods, id \in IdArgs, text \in TextArgs,
        payload \in PayloadArgs : Call(p, m, id, text, payload) /\ UNCHANGED remote
  \/ \E p \in Procs, outcome \in Outcomes : Settle(p, outcome) /\ UNCHANGED remote
  \/ \E p \in Procs : Return(p) /\ UNCHANGED remote
  \/ \E p \in Procs, params \in UrlInputs : Generate(p, params) /\ UNCHANGED remote
  \/ \E p \in Procs, importId \in IdArgs : runImport(p, importId) /\ UNCHANGED remote
  \/ \E p \in Procs, outcome \in Outcomes : runImportResult(p, outcome) /\ UNCHANGED remote
  \/ \E p \in Procs, exportId \in IdArgs : runExport(p, exportId) /\ UNCHANGED remote
  \/ \E p \in Procs, outcome \in Outcomes : runExportResult(p, outcome) /\ UNCHANGED remote
  \/ \E p \in Procs, params \in SetupParams : setupBigCommerceIntegration(p, params)
        /\ UNCHANGED remote
  \/ \E p \in Procs, outcome \in Outcomes : accountResult(p, outcome) /\ UNCHANGED remote
  \/ \E p \in Procs, outcome \in Outcomes : inviteResult(p, outcome) /\ UNCHANGED remote
  \/ \E p \in Procs, outcome \in Outcomes : dbResult(p, outcome) /\ UNCHANGED remote
  \/ \E p \in Procs, outcome \in Outcomes : groupResult(p, outcome) /\ UNCHANGED remote
  \/ \E p \in Procs, outcome \in Outcomes : vaultResult(p, outcome) /\ UNCHANGED remote
  \/ \E p \in Procs, outcome \in Outcomes : importResult(p, outcome) /\ UNCHANGED remote
  \/ \E p \in Procs, outcome \in Outcomes : scheduleResult(p, outcome) /\ UNCHANGED remote
  \/ \E p \in Procs, outcome \in Outcomes : buildResult(p, outcome) /\ UNCHANGED remote

Spec == Init /\ [][Next]_vars

(***************************************************************************)
(* Clients that differ in token, base URL and verbosity, used directly.    *)
(***************************************************************************)
VerboseTokens == {"tok-A", "tok-B"}

VerboseConfigs ==
  {Some([apiToken |-> t, dbId |-> d, baseUrl |-> b, timeout |-> None, verbose |-> v]) :
     t \in VerboseTokens, d \in {Undef, "db0"}, b \in {Undef, "https://fdx.test/api"},
     v \in {Undef, True}}

NextVerbose ==
  \/ \E config \in VerboseConfigs : constructor(config) /\ UNCHANGED remote
  \/ \E v \in DbIdArgs : setDbId(v) /\ UNCHANGED remote
  \/ \E p \in Procs, m \in Methods, id \in IdArgs, text \in TextArgs,
        payload \in PayloadArgs : Call(p, m, id, text, payload) /\ UNCHANGED remote
  \/ \E p \in Procs, outcome \in Outcomes : Settle(p, outcome) /\ UNCHANGED remote
  \/ \E p \in Procs : Return(p) /\ UNCHANGED remote

SpecVerbose == Init /\ [][NextVerbose]_vars

(***************************************************************************)
(* A remote service that keeps what it is sent.  A row is one resource:    *)
(* the listing it appears in, its place in that listing, its identifier    *)
(* and name, the client method that created it ("" when it was there from  *)
(* the start) and whether it has been deleted since.  Each call is served  *)
(* from the rows, or refused.                                              *)
(***************************************************************************)
FetchSteps == {"accounts", "groups", "vault", "imports", "exports", "ftpAccounts", "dbs"}
CreateSteps ==
  {"createBigCommerceAccount", "createDb", "createGroup", "moveDbintoNewDbGroup",
   "addDbVaultEntry", "createVault", "createImport", "createExport", "createFtpAccounts",
   "createTransformer"}
DeleteSteps == {"deleteVault", "deleteDb", "deleteDbField"}

\* the listing a call reads or adds to
ListingOf(step, call) ==
  CASE step \in {"accounts", "createBigCommerceAccount"} -> "/user/accounts"
    [] step \in {"groups", "createGroup", "moveDbintoNewDbGroup"} -> "/groups"
    [] OTHER -> call.url

IdPrefix(step) ==
  CASE step = "createBigCommerceAccount" -> "acc-"
    [] step = "createDb" -> "db-"
    [] step \in {"createGroup", "moveDbintoNewDbGroup"} -> "grp-"
    [] step \in {"addDbVaultEntry", "createVault"} -> "vlt-"
    [] step = "createImport" -> "imp-"
    [] step = "createExport" -> "exp-"
    [] step = "createTransformer" -> "trf-"
    [] OTHER -> "ftp-"

\* the value that follows a key in a request body
DataField(data, key) ==
  LET at == {k \in DOMAIN data : k % 2 = 1 /\ data[k] = key} IN
  IF at = {} THEN Undef ELSE data[(CHOOSE k \in at : \A j \in at : k <= j) + 1]

NameOf(step, call) ==
  DataField(call.data,
            IF step = "moveDbintoNewDbGroup" THEN "target_db_group_name" ELSE "name")

RowsAt(rows, listing) == {r \in rows : r.at = listing}

\* the entries of a listing, in the order they were created
RECURSIVE Listed(_, _)
Listed(rows, listing) ==
  LET live == {r \in RowsAt(rows, listing) : ~r.gone} IN
  IF live = {} THEN <<>>
  ELSE LET first == CHOOSE r \in live : \A q \in live : r.no <= q.no IN
       <<IF listing = "/user/accounts"
           THEN [id |-> first.id, account_name |-> first.name]
           ELSE [id |-> first.id, name |-> first.name]>>
         \o Listed(rows \ {first}, listing)

\* the row a create call adds: last in its listing, under an identifier no
\* other resource of its kind has
NewRow(rows, step, call) ==
  LET listing == ListingOf(step, call)
      no == Cardinality(RowsAt(rows, listing)) + 1
      alike == {r \in rows : r.by # "" /\ IdPrefix(r.by) = IdPrefix(step)}
  IN [at |-> listing, no |-> no,
      id |-> IdPrefix(step) \o ToString(Cardinality(alike) + 1),
      name |-> NameOf(step, call), by |-> step, gone |-> FALSE]

\* the identifier that ends the URL of a call on one resource
RECURSIVE LastSegment(_)
LastSegment(url) ==
  IF url = "" \/ SubSeq(url, Len(url), Len(url)) = "/" THEN ""
  ELSE LastSegment(SubSeq(url, 1, Len(url) - 1)) \o SubSeq(url, Len(url), Len(url))

Ok(body) ==
  [kind |-> "resolved",
   response |-> Some([status |-> Some(200), data |-> Some(body)]),
   message |-> Undef]

\* the response to a call that the service carries out
Served(rows, step, call) ==
  CASE step \in FetchSteps ->
         LET list == Listed(rows, ListingOf(step, call)) IN
         Ok(IF step = "vault" THEN [data |-> [vault_rows |-> Some(list)]] ELSE list)
    [] step \in CreateSteps ->
         LET row == NewRow(rows, step, call) IN
         Ok(IF step \in {"addDbVaultEntry", "createVault"}
              THEN [id |-> Undef, message |-> Undef, new_row_id |-> row.id]
              ELSE [id |-> row.id, message |-> Undef, new_row_id |-> Undef])
    [] OTHER -> Ok([id |-> Undef, message |-> "ok", new_row_id |-> Undef])

\* the ways the service refuses a call: an error response, or no response
Refusals ==
  {[kind |-> "rejected",
    response |-> Some([status |-> Some(500),
                       data |-> Some([id |-> Undef, message |-> "boom",
                                      new_row_id |-> Undef])]),
    message |-> "Request failed"],
   [kind |-> "rejected", response |-> None, message |-> "timeout of 60000ms exceeded"]}

\* the other response to a fetch of a vault that holds nothing: a body
\* without a row list
Sparse(rows, step, call) ==
  IF step = "vault" /\ Listed(rows, ListingOf(step, call)) = <<>>
    THEN {Ok([data |-> [vault_rows |-> None]])}
    ELSE {}

\* how the awaited call of p may end; a method that returned without a call
\* resumes whatever the service would have said
Answers(p) ==
  IF proc[p].wait.call = None THEN Refusals
  ELSE LET call == proc[p].wait.call[1] IN
       {Served(remote, proc[p].step, call)} \cup Sparse(remote, proc[p].step, call)
         \cup Refusals

\* the rows after the call was answered with outcome
Effect(rows, step, call, outcome) ==
  IF call = None \/ outcome.kind # "resolved" THEN rows
  ELSE CASE step \in CreateSteps -> rows \cup {NewRow(rows, step, call[1])}
         [] step \in DeleteSteps ->
              {IF r.id = LastSegment(call[1].url) THEN [r EXCEPT !.gone = TRUE] ELSE r :
                 r \in rows}
         [] OTHER -> rows

Serve(p, outcome) ==
  remote' = Effect(remote, proc[p].step, proc[p].wait.call, outcome)

SeedRow(listing, no, id, name) ==
  [at |-> listing, no |-> no, id |-> id, name |-> name, by |-> "", gone |-> FALSE]

\* a service that already holds entries of every kind the operations look
\* for, some of them twice
SeededRemote ==
  {SeedRow("/user/accounts", 1, "a0", "BC-123"),
   SeedRow("/user/accounts", 2, "a1", "BC-123"),
   SeedRow("/groups", 1, "g0", "BC-999"),
   SeedRow("/groups", 2, "g1", "BC-123"),
   SeedRow("/dbs/db1/imports", 1, "i0", "Other import"),
   SeedRow("/dbs/db1/imports", 2, "i1", MAIN_IMPORT_NAME),
   SeedRow("/dbs/db1/imports", 3, "i2", MAIN_IMPORT_NAME),
   SeedRow("/dbs/db1/exports", 1, "e0", EXPORT_NAME),
   SeedRow("/dbs/db1/exports", 2, "e1", EXPORT_NAME),
   SeedRow("/vault", 1, "v0", "BigCommerce Credentials"),
   SeedRow("/vault", 2, "v1", "bc_credentials"),
   SeedRow("/vault", 3, "v2", "bc_credentials"),
   SeedRow("/dbs/db1/ftp", 1, "f0", Undef)}

Remotes == {{}, SeededRemote}

\* resources created by calls so far
Created == {r \in remote : r.by # ""}

MaxCreated == 2
Room == Cardinality(Created) < MaxCreated

PersistConfigs ==
  {Some([apiToken |-> "tok-A", dbId |-> d, baseUrl |-> Undef, timeout |-> None,
         verbose |-> Undef]) : d \in {Undef, "db1"}}
PersistDbIds == {Undef, "db1"}
PersistSetupParams ==
  {BigCommerceSetupParams("test_token", Undef, Undef, None, Undef),
   BigCommerceSetupParams("test_token", "test@example.com", "BigCommerce",
                          Some([day |-> "", hour |-> "*/4", minute |-> "0"]),
                          "bigcommerce_template")}
StoreIds == {"123"}
AccountIds == {"acc1"}
AccountNames == {"BC-123", "Store 123"}
Users == {[id |-> "u1", storeHash |-> "abc123"]}
ChannelIds == {"12345"}
FtpCredentialsArgs == {[host |-> "ftp.example.com", username |-> "u", password |-> "pw"]}
Filenames == {"feed.txt"}
TimeSlots == {None, Some([hour |-> "2", minutes |-> "30"])}
AccessTokens == {"test_token"}

\* the lists createTransformers and updateDbFields are given: up to MaxElements
\* elements, each under its own name
MaxElements == 3
Elements(n) == [i \in 1..n |-> <<"name", "element " \o ToString(i)>>]
ElementLists == {Elements(n) : n \in 0..MaxElements}

NextPersist ==
  \/ \E config \in PersistConfigs : constructor(config) /\ UNCHANGED remote
  \/ \E v \in PersistDbIds : setDbId(v) /\ UNCHANGED remote
  \/ \E p \in Procs : Return(p) /\ UNCHANGED remote
  \/ \E p \in Procs, m \in Methods, id \in IdArgs, text \in TextArgs,
        payload \in PayloadArgs :
       Room /\ Call(p, m, id, text, payload) /\ UNCHANGED remote
  \/ \E p \in Procs : \E outcome \in Answers(p) : Settle(p, outcome) /\ Serve(p, outcome)
  \/ \E p \in Procs, importId \in IdArgs : Room /\ runImport(p, importId) /\ UNCHANGED remote
  \/ \E p \in Procs : \E outcome \in Answers(p) :
       runImportResult(p, outcome) /\ Serve(p, outcome)
  \/ \E p \in Procs, exportId \in IdArgs : Room /\ runExport(p, exportId) /\ UNCHANGED remote
  \/ \E p \in Procs : \E outcome \in Answers(p) :
       runExportResult(p, outcome) /\ Serve(p, outcome)
  \/ \E p \in Procs, storeId \in StoreIds :
       Room /\ getOrCreateAccount(p, storeId) /\ UNCHANGED remote
  \/ \E p \in Procs : \E outcome \in Answers(p) :
       getOrCreateAccountResult(p, outcome) /\ Serve(p, outcome)
  \/ \E p \in Procs, accountId \in AccountIds, accountName \in AccountNames :
       Room /\ moveDbToGroup(p, accountId, accountName) /\ UNCHANGED remote
  \/ \E p \in Procs : \E outcome \in Answers(p) :
       moveDbToGroupResult(p, outcome) /\ Serve(p, outcome)
  \/ \E p \in Procs, user \in Users, channelId \in ChannelIds, isCreate \in BOOLEAN :
       Room /\ createOrUpdateImport(p, user, channelId, isCreate) /\ UNCHANGED remote
  \/ \E p \in Procs : \E outcome \in Answers(p) :
       createOrUpdateImportResult(p, outcome) /\ Serve(p, outcome)
  \/ \E p \in Procs, ftpCredentials \in FtpCredentialsArgs, filename \in Filenames,
        timeSlot \in TimeSlots :
       Room /\ createOrUpdateExport(p, ftpCredentials, filename, timeSlot)
            /\ UNCHANGED remote
  \/ \E p \in Procs : \E outcome \in Answers(p) :
       createOrUpdateExportResult(p, outcome) /\ Serve(p, outcome)
  \/ \E p \in Procs, accessToken \in AccessTokens :
       Room /\ updateVaultEntries(p, accessToken) /\ UNCHANGED remote
  \/ \E p \in Procs : \E outcome \in Answers(p) :
       updateVaultEntriesResult(p, outcome) /\ Serve(p, outcome)
  \/ \E p \in Procs : Room /\ getFtpCredentials(p) /\ UNCHANGED remote
  \/ \E p \in Procs : \E outcome \in Answers(p) :
       getFtpCredentialsResult(p, outcome) /\ Serve(p, outcome)
  \/ \E p \in Procs, list \in ElementLists :
       Room /\ createTransformers(p, list) /\ UNCHANGED remote
  \/ \E p \in Procs : \E outcome \in Answers(p) :
       createTransformersResult(p, outcome) /\ Serve(p, outcome)
  \/ \E p \in Procs, fields \in ElementLists :
       Room /\ serviceUpdateDbFields(p, fields) /\ UNCHANGED remote
  \/ \E p \in Procs : \E outcome \in Answers(p) :
       serviceUpdateDbFieldsResult(p, outcome) /\ Serve(p, outcome)
  \/ \E p \in Procs, params \in PersistSetupParams :
       Room /\ setupBigCommerceIntegration(p, params) /\ UNCHANGED remote
  \/ \E p \in Procs : \E outcome \in Answers(p) :
       accountResult(p, outcome) /\ Serve(p, outcome)
  \/ \E p \in Procs : \E outcome \in Answers(p) :
       inviteResult(p, outcome) /\ Serve(p, outcome)
  \/ \E p \in Procs : \E outcome \in Answers(p) :
       dbResult(p, outcome) /\ Serve(p, outcome)
  \/ \E p \in Procs : \E outcome \in Answers(p) :
       groupResult(p, outcome) /\ Serve(p, outcome)
  \/ \E p \in Procs : \E outcome \in Answers(p) :
       vaultResult(p, outcome) /\ Serve(p, outcome)
  \/ \E p \in Procs : \E outcome \in Answers(p) :
       importResult(p, outcome) /\ Serve(p, outcome)
  \/ \E p \in Procs : \E outcome \in Answers(p) :
       scheduleResult(p, outcome) /\ Serve(p, outcome)
  \/ \E p \in Procs : \E outcome \in Answers(p) :
       buildResult(p, outcome) /\ Serve(p, outcome)

InitPersist == Unconstructed /\ remote \in Remotes

SpecPersist == InitPersist /\ [][NextPersist]_vars

(***************************************************************************)
(* The workflow run again and again on one client against the remote       *)
(* service that keeps what it is sent, until MaxRuns accounts were created. *)
(***************************************************************************)
CreatedBy(rows, step) == {r \in rows : r.by = step}

MaxRuns == 2
RerunRoom == Cardinality(CreatedBy(remote, "createBigCommerceAccount")) < MaxRuns

NextRerun ==
  \/ \E config \in PersistConfigs : constructor(config) /\ UNCHANGED remote
  \/ \E p \in Procs : Return(p) /\ UNCHANGED remote
  \/ \E p \in Procs, params \in PersistSetupParams :
       RerunRoom /\ setupBigCommerceIntegration(p, params) /\ UNCHANGED remote
  \/ \E p \in Procs : \E outcome \in Answers(p) :
       accountResult(p, outcome) /\ Serve(p, outcome)
  \/ \E p \in Procs : \E outcome \in Answers(p) :
       inviteResult(p, outcome) /\ Serve(p, outcome)
  \/ \E p \in Procs : \E outcome \in Answers(p) :
       dbResult(p, outcome) /\ Serve(p, outcome)
  \/ \E p \in Procs : \E outcome \in Answers(p) :
       groupResult(p, outcome) /\ Serve(p, outcome)
  \/ \E p \in Procs : \E outcome \in Answers(p) :
       vaultResult(p, outcome) /\ Serve(p, outcome)
  \/ \E p \in Procs : \E outcome \in Answers(p) :
       importResult(p, outcome) /\ Serve(p, outcome)
  \/ \E p \in Procs : \E outcome \in Answers(p) :
       scheduleResult(p, outcome) /\ Serve(p, outcome)
  \/ \E p \in Procs : \E outcome \in Answers(p) :
       buildResult(p, outcome) /\ Serve(p, outcome)

SpecRerun == InitPersist /\ [][NextRerun]_vars

(***************************************************************************)
(* Two callers share one client: each runs the workflow once, and their     *)
(* steps interleave at the awaits.                                         *)
(***************************************************************************)
Callers == {"p1", "p2"}

SharedSetupParams ==
  {BigCommerceSetupParams("test_token", Undef, "BigCommerce",
                          Some([day |-> "", hour |-> "*/4", minute |-> "0"]),
                          "bigcommerce_template")}

InitShared ==
  /\ construction = [attempted |-> FALSE, config |-> None, thrown |-> None]
  /\ client = None
  /\ apiToken = Undef
  /\ dbId = Undef
  /\ baseUrl = Undef
  /\ verbose = FALSE
  /\ proc = [p \in Callers |-> IdleProc]
  /\ remote = {}

NextShared ==
  \/ \E config \in PersistConfigs : constructor(config) /\ UNCHANGED remote
  \/ \E p \in Callers, params \in SharedSetupParams :
       setupBigCommerceIntegrationShared(p, params) /\ UNCHANGED remote
  \/ \E p \in Callers : \E outcome \in Answers(p) :
       accountResult(p, outcome) /\ Serve(p, outcome)
  \/ \E p \in Callers : \E outcome \in Answers(p) :
       dbResult(p, outcome) /\ Serve(p, outcome)
  \/ \E p \in Callers : \E outcome \in Answers(p) :
       groupResult(p, outcome) /\ Serve(p, outcome)
  \/ \E p \in Callers : \E outcome \in Answers(p) :
       vaultResult(p, outcome) /\ Serve(p, outcome)
  \/ \E p \in Callers : \E outcome \in Answers(p) :
       importResult(p, outcome) /\ Serve(p, outcome)
  \/ \E p \in Callers : \E outcome \in Answers(p) :
       scheduleResult(p, outcome) /\ Serve(p, outcome)
  \/ \E p \in Callers : \E outcome \in Answers(p) :
       buildResult(p, outcome) /\ Serve(p, outcome)

SpecShared == InitShared /\ [][NextShared]_vars

(***************************************************************************)
(* Properties.                                                             *)
(***************************************************************************)
Done(p) == proc[p].pc = "done"
DirectCall(p) == proc[p].op \in Methods /\ proc[p].pc # "idle"
\* a direct method call whose awaited HTTP call has ended
Settled(p) == DirectCall(p) /\ Done(p) /\ proc[p].outcome # None

\* C1: each of the 19 database-scoped client methods, called while the active
\* dbId is unset or empty (whatever constructor preset and setDbId calls came
\* before), returns exactly {success:false, error:'Database ID is required.
\* Please set it using setDbId() first.'} with no data and no status, and issues
\* no network call.
C1_DbIdRequired ==
  \A p \in Procs :
    (DirectCall(p) /\ proc[p].op \in DbScopedMethods /\ proc[p].db0 \in {Undef, Null, ""})
      => /\ Done(p)
         /\ proc[p].thrown = None
         /\ proc[p].ret =
              Some([success |-> FALSE, data |-> None, status |-> None,
                    error |-> Some("Database ID is required. Please set it using setDbId() first.")])
         /\ proc[p].calls = <<>>

\* a database-scoped method was called after setDbId('') replaced a preset dbId
C1_Witness ==
  \E p \in Procs :
    /\ Done(p)
    /\ proc[p].op = "updateImportSchedule"
    /\ proc[p].db0 = ""
    /\ construction.config # None
    /\ construction.config[1].dbId = "db0"
    /\ proc[p].calls = <<>>

\* C2 as stated: for every response the client obtains, resolved or inside a
\* rejection, request returns {success:true, data:body, status} when the status
\* is in [200,300) and {success:false, error: the server message or 'API error',
\* status} otherwise.
C2_AsStated ==
  \A p \in Procs :
    (Settled(p) /\ proc[p].outcome[1].response # None
       /\ proc[p].outcome[1].response[1].status # None)
      => LET response == proc[p].outcome[1].response[1]
             code == response.status[1]
             message == Field(response.data, "message")
         IN proc[p].ret =
              Some(IF code >= 200 /\ code < 300
                     THEN [success |-> TRUE, data |-> response.data, error |-> None,
                           status |-> Some(code)]
                     ELSE [success |-> FALSE, data |-> None,
                           error |-> Some(IF message \in {Undef, ""} THEN "API error"
                                          ELSE message),
                           status |-> Some(code)])

\* C2 (amended): a resolved response yields {success:true, data:body, status} when
\* its status is in [200,300) and otherwise {success:false, error: the server
\* message or the placeholder 'Unknown error', status}; a response that arrives
\* inside a rejection yields {success:false, error: the server message or the
\* placeholder 'API error', status: that response's status} whatever its status.
C2_Envelope ==
  \A p \in Procs :
    (Settled(p) /\ proc[p].outcome[1].response # None)
      => LET response == proc[p].outcome[1].response[1]
             message == Field(response.data, "message")
             supplied == message \notin {Undef, ""}
         IN proc[p].ret =
              Some(IF proc[p].outcome[1].kind = "resolved"
                     THEN IF response.status[1] >= 200 /\ response.status[1] < 300
                            THEN [success |-> TRUE, data |-> response.data, error |-> None,
                                  status |-> response.status]
                            ELSE [success |-> FALSE, data |-> None,
                                  error |-> Some(IF supplied THEN message ELSE "Unknown error"),
                                  status |-> response.status]
                     ELSE [success |-> FALSE, data |-> None,
                           error |-> Some(IF supplied THEN message ELSE "API error"),
                           status |-> response.status])

\* a resolved response with status 300 and no message was mapped to 'Unknown error'
C2_Witness ==
  \E p \in Procs :
    /\ Settled(p)
    /\ proc[p].outcome[1].kind = "resolved"
    /\ proc[p].outcome[1].response[1].status = Some(300)
    /\ Field(proc[p].outcome[1].response[1].data, "message") = Undef
    /\ proc[p].ret[1].error = Some("Unknown error")

\* C3 as stated: a rejection without a structured response yields {success:false,
\* error: the exception's message} with no status; a rejection with a structured
\* response yields that response's message field as error and its status.
C3_AsStated ==
  \A p \in Procs :
    (Settled(p) /\ proc[p].outcome[1].kind = "rejected")
      => LET error == proc[p].outcome[1] IN
         proc[p].ret =
           Some(IF error.response = None
                  THEN [success |-> FALSE, data |-> None, error |-> Opt(error.message),
                        status |-> None]
                  ELSE [success |-> FALSE, data |-> None,
                        error |-> Opt(Field(error.response[1].data, "message")),
                        status |-> error.response[1].status])

\* C3 (amended): a rejection without a structured response yields {success:false,
\* error: the exception's message, or 'Network error' when that message is missing
\* or empty} with no status; a rejection with a structured response yields
\* {success:false, error: the response's message field, or 'API error' when that
\* field is missing or empty, status: the response's status (absent when the
\* response has none)}, never the generic exception message.
C3_Rejection ==
  \A p \in Procs :
    (Settled(p) /\ proc[p].outcome[1].kind = "rejected")
      => LET error == proc[p].outcome[1]
             message == IF error.response = None THEN error.message
                        ELSE Field(error.response[1].data, "message")
             fallback == IF error.response = None THEN "Network error" ELSE "API error"
         IN proc[p].ret =
              Some([success |-> FALSE, data |-> None,
                    error |-> Some(IF message \in {Undef, ""} THEN fallback ELSE message),
                    status |-> IF error.response = None THEN None
                               ELSE error.response[1].status])

\* a timeout (no response) came back as the exception's message, without status
C3_Witness ==
  \E p \in Procs :
    /\ Settled(p)
    /\ proc[p].outcome[1].kind = "rejected"
    /\ proc[p].outcome[1].response = None
    /\ proc[p].outcome[1].message = "timeout of 60000ms exceeded"
    /\ proc[p].ret[1].error = Some("timeout of 60000ms exceeded")
    /\ proc[p].ret[1].status = None

\* C4: a client method whose precondition passes issues exactly one outbound
\* call, and whatever the outcome of that call (resolved 2xx, resolved non-2xx,
\* rejected with or without a response) the method resolves to a result
\* envelope; no exception reaches the caller.
C4_OneCallAlwaysEnvelope ==
  \A p \in Procs :
    DirectCall(p) =>
      /\ (proc[p].op \notin DbScopedMethods \/ proc[p].db0 \notin {Undef, Null, ""})
           => Len(proc[p].calls) = 1
      /\ proc[p].thrown = None
      /\ Done(p) => proc[p].ret # None
      /\ Settled(p) => Len(proc[p].calls) = 1

\* a call that was rejected without a response still ended in an envelope
C4_Witness ==
  \E p \in Procs :
    /\ Settled(p)
    /\ proc[p].op = "request"
    /\ proc[p].outcome[1].kind = "rejected"
    /\ proc[p].outcome[1].response = None
    /\ proc[p].ret # None
    /\ Len(proc[p].calls) = 1

\* C5: every result envelope an operation returns, and every envelope a client
\* method hands to the workflow, has error absent when success is true, and has
\* data absent and error present when success is false.
WellFormedEnvelope(env) ==
  /\ env.success => env.error = None
  /\ ~env.success => env.data = None /\ env.error # None

C6_Construction ==
  construction.attempted =>
    IF construction.config # None /\ construction.config[1].apiToken \notin {Undef, ""}
      THEN /\ construction.thrown = None
           /\ client # None
           /\ apiToken = construction.config[1].apiToken
      ELSE /\ construction.thrown =
                Some(IF construction.config = None THEN "Config is required"
                     ELSE "API key is required")
           /\ client = None
           /\ \A p \in Procs : proc[p].calls = <<>> /\ proc[p].pc = "idle"

\* construction with an empty apiToken threw and left no HTTP client
C6_Witness ==
  /\ construction.attempted
  /\ construction.config # None
  /\ construction.config[1].apiToken = ""
  /\ construction.thrown = Some("API key is required")
  /\ client = None

(***************************************************************************)
(* Properties of setupBigCommerceIntegration.                              *)
(***************************************************************************)
Setup(p) == proc[p].op = SETUP

\* the steps in the order of the code, and the label of each step's failure
SetupSteps ==
  <<"createBigCommerceAccount", "invitePrimaryUser", "createDb", "moveDbintoNewDbGroup",
    "addDbVaultEntry", "createImport", "updateImportSchedule", "applyAutomateBuildTemplate">>

StepLabel(step) ==
  CASE step = "createBigCommerceAccount" -> "Failed to create account:"
    [] step = "invitePrimaryUser" -> "Failed to invite user:"
    [] step = "createDb" -> "Failed to create database:"
    [] step = "moveDbintoNewDbGroup" -> "Failed to move database to group:"
    [] step = "addDbVaultEntry" -> "Failed to create vault entry:"
    [] step = "createImport" -> "Failed to create import:"
    [] step = "updateImportSchedule" -> "Failed to update import schedule:"
    [] step = "applyAutomateBuildTemplate" -> "Failed to apply build template:"

CatchLabel == "BigCommerce setup failed:"

StepIndex(step) == CHOOSE i \in 1..Len(SetupSteps) : SetupSteps[i] = step
Invoked(p, step) == \E i \in 1..Len(proc[p].invoked) : proc[p].invoked[i] = step
LastInvoked(p) == proc[p].invoked[Len(proc[p].invoked)]

\* the workflow returned the failure envelope { success: false, error } and
\* nothing else
SetupFailed(p) ==
  /\ Done(p)
  /\ proc[p].thrown = None
  /\ proc[p].ret # None
  /\ ~proc[p].ret[1].success
  /\ proc[p].ret[1].data = None
  /\ proc[p].ret[1].error # None

SetupSucceeded(p) ==
  /\ Done(p)
  /\ proc[p].thrown = None
  /\ proc[p].ret # None
  /\ proc[p].ret[1].success

\* C7: when the client call of a step of setupBigCommerceIntegration reports
\* failure (all earlier executed steps having succeeded), the workflow returns
\* at once {success:false} whose error begins with that step's own label, and
\* no later step's client call is issued: the failing step is the last method
\* invoked and the last HTTP call made, and the steps invoked are in the order
\* of the code.
C7_StepFailure ==
  \A p \in Procs :
    (Setup(p) /\ proc[p].last.step # "" /\ ~proc[p].last.success)
      => /\ SetupFailed(p)
         /\ StartsWith(proc[p].ret[1].error[1], StepLabel(proc[p].last.step))
         /\ proc[p].ret[1].error[1]
              = StepLabel(proc[p].last.step) \o " " \o String(proc[p].last.error[1])
         /\ LastInvoked(p) = proc[p].last.step
         /\ Len(proc[p].calls) = Len(proc[p].invoked)
         /\ \A i, j \in 1..Len(proc[p].invoked) :
              i < j => StepIndex(proc[p].invoked[i]) < StepIndex(proc[p].invoked[j])

\* C7 case: the last step, applyAutomateBuildTemplate, fails after all seven
\* earlier steps ran and succeeded.
C7_Witness ==
  \E p \in Procs :
    /\ Setup(p)
    /\ proc[p].last.step = "applyAutomateBuildTemplate"
    /\ ~proc[p].last.success
    /\ Len(proc[p].invoked) = 8
    /\ SetupFailed(p)

OptionalSteps ==
  {"invitePrimaryUser", "moveDbintoNewDbGroup", "updateImportSchedule",
   "applyAutomateBuildTemplate"}

\* the workflow took the latest result it received as a success of that step:
\* the envelope reports success and carries the identifier steps 1, 3 and 6
\* need
Accepted(p) ==
  /\ proc[p].last.step # ""
  /\ proc[p].last.success
  /\ proc[p].last.step = "createBigCommerceAccount" => proc[p].got.accountId # Undef
  /\ proc[p].last.step = "createDb" => proc[p].got.dbId # Undef
  /\ proc[p].last.step = "createImport" => proc[p].got.importId # Undef

\* the workflow is past the place of step 7: the import was created and the
\* schedule step was skipped or succeeded
PastSchedule(p) ==
  /\ proc[p].got.importId # Undef
  /\ \/ proc[p].params.importSchedule = None
     \/ proc[p].last.step = "updateImportSchedule" /\ proc[p].last.success
     \/ proc[p].last.step = "applyAutomateBuildTemplate"

\* C8: each optional step of setupBigCommerceIntegration is issued if and only
\* if its input is provided (a non-empty userEmail, a non-empty groupName, an
\* importSchedule, a non-empty buildTemplate), once the workflow is past the
\* place of that step; an optional step's call never carries an empty value;
\* and a workflow whose executed steps all succeeded, whatever steps it
\* skipped, returns success: a failure is always that of a step that was
\* invoked, or of an exception.
C8_OptionalSteps ==
  \A p \in Procs :
    Setup(p) =>
      /\ Invoked(p, "invitePrimaryUser") => Truthy(proc[p].params.userEmail)
      /\ Invoked(p, "moveDbintoNewDbGroup") => Truthy(proc[p].params.groupName)
      /\ Invoked(p, "updateImportSchedule") => proc[p].params.importSchedule # None
      /\ Invoked(p, "applyAutomateBuildTemplate") => Truthy(proc[p].params.buildTemplate)
      /\ (proc[p].got.accountId # Undef /\ Truthy(proc[p].params.userEmail))
           => Invoked(p, "invitePrimaryUser")
      /\ (proc[p].got.dbId # Undef /\ Truthy(proc[p].params.groupName))
           => Invoked(p, "moveDbintoNewDbGroup")
      /\ (proc[p].got.importId # Undef /\ proc[p].params.importSchedule # None)
           => Invoked(p, "updateImportSchedule")
      /\ (PastSchedule(p) /\ Truthy(proc[p].params.buildTemplate))
           => Invoked(p, "applyAutomateBuildTemplate")
      /\ Len(proc[p].calls) = Len(proc[p].invoked)
      /\ \A i \in 1..Len(proc[p].invoked) :
           proc[p].invoked[i] \in OptionalSteps
             => \A k \in 1..Len(proc[p].calls[i].data) : Truthy(proc[p].calls[i].data[k])
      /\ (Done(p) /\ Accepted(p) /\ proc[p].raised = None) => SetupSucceeded(p)
      /\ (Done(p) /\ ~SetupSucceeded(p))
           => \/ proc[p].raised # None
              \/ /\ ~Accepted(p)
                 /\ LastInvoked(p) = proc[p].last.step
                 /\ StartsWith(proc[p].ret[1].error[1], StepLabel(proc[p].last.step))

\* C8 case: no optional input is provided (an empty userEmail and an empty
\* buildTemplate, no groupName, no importSchedule), only the four mandatory
\* steps are invoked, and the workflow returns success.
C8_Witness ==
  \E p \in Procs :
    /\ Setup(p)
    /\ SetupSucceeded(p)
    /\ proc[p].params.userEmail = ""
    /\ proc[p].params.groupName = Undef
    /\ proc[p].params.importSchedule = None
    /\ proc[p].params.buildTemplate = ""
    /\ proc[p].invoked
         = <<"createBigCommerceAccount", "createDb", "addDbVaultEntry", "createImport">>

\* C9: an exception raised inside setupBigCommerceIntegration never reaches the
\* caller: the workflow returns {success:false, error:'BigCommerce setup
\* failed: ' + the exception's message}, whose label is none of the step labels;
\* and a step-reported failure never carries the label of the catch clause.
C9_CaughtException ==
  \A p \in Procs :
    Setup(p) =>
      /\ proc[p].thrown = None
      /\ proc[p].raised # None
           => /\ SetupFailed(p)
              /\ proc[p].ret[1].status = None
              /\ proc[p].ret[1].error[1] = CatchLabel \o " " \o proc[p].raised[1]
              /\ \A i \in 1..Len(SetupSteps) :
                   ~StartsWith(proc[p].ret[1].error[1], StepLabel(SetupSteps[i]))
      /\ (Done(p) /\ proc[p].raised = None /\ ~SetupSucceeded(p))
           => ~StartsWith(proc[p].ret[1].error[1], CatchLabel)

\* C9 case: the access token holds an unpaired surrogate, so building the
\* preprocessor URL in step 6 throws URIError after the vault entry was added.
C9_Witness ==
  \E p \in Procs :
    /\ Setup(p)
    /\ proc[p].raised = Some("URI malformed")
    /\ LastInvoked(p) = "addDbVaultEntry"
    /\ SetupFailed(p)
    /\ proc[p].ret[1].error[1] = "BigCommerce setup failed: URI malformed"

\* C10 as stated: whenever setupBigCommerceIntegration returns success, the
\* payload's accountId, dbId, importId and vaultEntryId equal the identifiers
\* the account, database, import and vault steps returned, and each of the
\* four is defined.
C10_AsStated ==
  \A p \in Procs :
    (Setup(p) /\ SetupSucceeded(p))
      => LET summary == proc[p].ret[1].data[1] IN
         /\ summary.accountId = proc[p].got.accountId
         /\ summary.dbId = proc[p].got.dbId
         /\ summary.importId = proc[p].got.importId
         /\ summary.vaultEntryId = proc[p].got.vaultId
         /\ summary.accountId \notin {Undef, Null}
         /\ summary.dbId \notin {Undef, Null}
         /\ summary.importId \notin {Undef, Null}
         /\ summary.vaultEntryId \notin {Undef, Null}

\* which optional steps a run with these parameters executes
RanSteps(params) ==
  [invite |-> Truthy(params.userEmail),
   group |-> Truthy(params.groupName),
   schedule |-> params.importSchedule # None,
   build |-> Truthy(params.buildTemplate)]

\* two parameter records that differ in one optional input only, one run
\* executing that input's step and the other not
DifferInStep(a, b, step) ==
  /\ RanSteps(a)[step] # RanSteps(b)[step]
  /\ \A other \in {"invite", "group", "schedule", "build"} \ {step} :
       RanSteps(a)[other] = RanSteps(b)[other]
  /\ [a EXCEPT !.userEmail = Undef, !.groupName = Undef, !.importSchedule = None,
               !.buildTemplate = Undef]
       = [b EXCEPT !.userEmail = Undef, !.groupName = Undef, !.importSchedule = None,
                   !.buildTemplate = Undef]
  /\ step # "invite" => a.userEmail = b.userEmail
  /\ step # "group" => a.groupName = b.groupName
  /\ step # "schedule" => a.importSchedule = b.importSchedule
  /\ step # "build" => a.buildTemplate = b.buildTemplate

\* the envelope a successful run returns when called with the parameters q and
\* answered with the same identifiers as the run of p
TwinReturn(p, q) == SetupSuccess([proc[p] EXCEPT !.params = q]).ret

\* C11 as stated: two successful runs that differ only in whether one optional
\* step (invite, group move, schedule, build template) was executed return
\* distinguishable summaries.
C11_AsStated ==
  \A p \in Procs :
    (Setup(p) /\ SetupSucceeded(p))
      => \A q \in SetupParams, step \in {"invite", "group", "schedule", "build"} :
           DifferInStep(proc[p].params, q, step) => TwinReturn(p, q) # proc[p].ret

\* C11 amended: the success summary tells whether the user invite ran (its
\* primaryUserEmail is the userEmail input, non-empty exactly when the invite
\* was issued) and holds nothing else beside success and the four identifiers:
\* runs that differ only in whether the group move, the import schedule or the
\* build template ran return the same summary.
C11_Summary ==
  \A p \in Procs :
    (Setup(p) /\ SetupSucceeded(p))
      => LET summary == proc[p].ret[1].data[1] IN
         /\ DOMAIN summary
              = {"success", "accountId", "dbId", "importId", "vaultEntryId", "primaryUserEmail"}
         /\ summary.primaryUserEmail = proc[p].params.userEmail
         /\ Truthy(summary.primaryUserEmail) <=> Invoked(p, "invitePrimaryUser")
         /\ \A q \in SetupParams :
              /\ DifferInStep(proc[p].params, q, "invite") => TwinReturn(p, q) # proc[p].ret
              /\ \A step \in {"group", "schedule", "build"} :
                   DifferInStep(proc[p].params, q, step) => TwinReturn(p, q) = proc[p].ret

\* C11 case: a successful run that executed all four optional steps.
C11_Witness ==
  \E p \in Procs :
    /\ Setup(p)
    /\ SetupSucceeded(p)
    /\ Len(proc[p].invoked) = 8
    /\ proc[p].ret[1].data[1].primaryUserEmail = "test@example.com"

\* s has t as a substring
HasSubstring(s, t) ==
  \E i \in 1..(Len(s) - Len(t) + 1) : SubSeq(s, i, i + Len(t) - 1) = t

\* an outbound call carries the text t, as it is or encoded as the URL builder
\* encodes a value
Mentions(call, t) ==
  LET encoded == FormUrlEncode(encodeURIComponent(encodeURIComponent(t))) IN
  \/ HasSubstring(call.url, t)
  \/ \E k \in 1..Len(call.data) :
       HasSubstring(call.data[k], t) \/ HasSubstring(call.data[k], encoded)

\* the createImport call the workflow of p would issue for another access token
TwinImport(p, token) ==
  SetupImport([proc[p] EXCEPT !.params.accessToken = token,
                              !.calls = <<>>, !.invoked = <<>>]).calls

\* C13 as stated: the createImport body setupBigCommerceIntegration sends and the
\* URL in it embed the vault placeholder as access token, not the caller's raw
\* token: a run with another access token sends the same createImport payload,
\* and the raw token is sent in the vault-entry call only.
C13_AsStated ==
  \A p \in Procs :
    (Setup(p) /\ ~UriMalformed(proc[p].params.accessToken))
      => /\ \A i \in 1..Len(proc[p].calls) :
              proc[p].invoked[i] # "addDbVaultEntry"
                => ~Mentions(proc[p].calls[i], proc[p].params.accessToken)
         /\ Awaiting(p, "createImport")
              => /\ Mentions(proc[p].wait.call[1], VaultPlaceholder)
                 /\ TwinImport(p, "other_token") = proc[p].wait.call

\* the steps a run with these parameters goes through, in the order of the code
StepsOf(params) ==
  LET Runs(step) ==
        CASE step = "invitePrimaryUser" -> RanSteps(params).invite
          [] step = "moveDbintoNewDbGroup" -> RanSteps(params).group
          [] step = "updateImportSchedule" -> RanSteps(params).schedule
          [] step = "applyAutomateBuildTemplate" -> RanSteps(params).build
          [] OTHER -> TRUE
  IN SelectSeq(SetupSteps, Runs)

\* C18: within one setupBigCommerceIntegration invocation the client calls are
\* issued in the order createBigCommerceAccount, [invitePrimaryUser], createDb,
\* [moveDbintoNewDbGroup], addDbVaultEntry, createImport, [updateImportSchedule],
\* [applyAutomateBuildTemplate]; a call is issued only once the result of the
\* previous one was received, so at most one call is in flight; and each call
\* is addressed to the identifier an earlier step returned: the account's to
\* the invite and createDb, the database's to the group move and the vault
\* entry, the import's to the schedule and the template.
C18_OrderedSteps ==
  \A p \in Procs :
    Setup(p) =>
      LET pr == proc[p]
          n == Len(pr.invoked)
      IN /\ n >= 1
         /\ n <= Len(StepsOf(pr.params))
         /\ pr.invoked = SubSeq(StepsOf(pr.params), 1, n)
         /\ Len(pr.calls) = n
         /\ n - pr.received = (IF pr.pc = "await" THEN 1 ELSE 0)
         /\ pr.pc = "await" => pr.wait.call = <<pr.calls[n]>>
         /\ \A i \in 1..n :
              LET call == pr.calls[i] IN
              CASE pr.invoked[i] = "invitePrimaryUser" ->
                     /\ pr.got.accountId # Undef
                     /\ call.url = "/accounts/" \o pr.got.accountId \o "/user_account_permissions"
                [] pr.invoked[i] = "createDb" ->
                     /\ pr.got.accountId # Undef
                     /\ call.url = "/accounts/" \o pr.got.accountId \o "/dbs"
                [] pr.invoked[i] = "moveDbintoNewDbGroup" ->
                     /\ pr.got.dbId # Undef
                     /\ call.url = "/dbs/" \o pr.got.dbId \o "/move_db_to_db_group"
                [] pr.invoked[i] = "addDbVaultEntry" ->
                     /\ pr.got.dbId # Undef
                     /\ call.url = "/dbs/" \o pr.got.dbId \o "/vault"
                [] pr.invoked[i] = "updateImportSchedule" ->
                     /\ pr.got.importId # Undef
                     /\ call.url = "/dbs/" \o pr.got.dbId \o "/imports/" \o pr.got.importId
                                     \o "/schedule"
                [] pr.invoked[i] = "applyAutomateBuildTemplate" ->
                     /\ pr.got.importId # Undef
                     /\ call.data[2] = pr.got.importId
                [] OTHER -> TRUE

\* C18 case: all eight steps run; the eighth call is in flight after seven
\* results were received, and the account, database and import identifiers
\* are not all the same.
C18_Witness ==
  \E p \in Procs :
    /\ Awaiting(p, "applyAutomateBuildTemplate")
    /\ Len(proc[p].calls) = 8
    /\ proc[p].received = 7
    /\ proc[p].got.accountId # proc[p].got.dbId
    /\ proc[p].got.dbId # proc[p].got.importId

(***************************************************************************)
(* Reading a generated URL back: new URLSearchParams(new URL(url).search)   *)
(* and decodeURIComponent, over printable ASCII.  In Ascii the tab stands   *)
(* at the place of the backquote, for a character outside the alphabet.    *)
(***************************************************************************)
Ascii ==
  " !\"#$%&'()*+,-./0123456789:;<=>?@ABCDEFGHIJKLMNOPQRSTUVWXYZ[\\]^_\tabcdefghijklmnopqrstuvwxyz{|}~"
HexDigits == "0123456789ABCDEFabcdef"
URIError == "<URIError>"

IsHex(c) == \E i \in 1..Len(HexDigits) : SubSeq(HexDigits, i, i) = c
HexValue(c) ==
  LET i == CHOOSE j \in 1..Len(HexDigits) : SubSeq(HexDigits, j, j) = c
  IN IF i > 16 THEN i - 7 ELSE i - 1
\* the character with this code
CharOf(n) == IF n \in 32..126 THEN SubSeq(Ascii, n - 31, n - 31) ELSE "\t"

\* percent-decoding; form: '+' is a space and a malformed escape is kept, as in
\* URLSearchParams; otherwise a malformed escape throws, as in decodeURIComponent
RECURSIVE PercentDecode(_, _)
PercentDecode(s, form) ==
  IF s = "" THEN ""
  ELSE LET c == SubSeq(s, 1, 1)
           escape == /\ c = "%"
                     /\ Len(s) >= 3
                     /\ IsHex(SubSeq(s, 2, 2))
                     /\ IsHex(SubSeq(s, 3, 3))
           head == IF escape
                     THEN CharOf(16 * HexValue(SubSeq(s, 2, 2)) + HexValue(SubSeq(s, 3, 3)))
                     ELSE IF c = "+" /\ form THEN " " ELSE c
           rest == PercentDecode(SubSeq(s, IF escape THEN 4 ELSE 2, Len(s)), form)
       IN IF (c = "%" /\ ~escape /\ ~form) \/ rest = URIError THEN URIError
          ELSE head \o rest

decodeURIComponent(s) == IF s = URIError THEN URIError ELSE PercentDecode(s, FALSE)

\* the place of the first c in s, 0 when there is none
IndexOf(s, c) ==
  IF \E i \in 1..Len(s) : SubSeq(s, i, i) = c
    THEN CHOOSE i \in 1..Len(s) :
           /\ SubSeq(s, i, i) = c
           /\ \A j \in 1..(i - 1) : SubSeq(s, j, j) # c
    ELSE 0

RECURSIVE Split(_, _)
Split(s, sep) ==
  LET i == IndexOf(s, sep) IN
  IF i = 0 THEN <<s>>
  ELSE <<SubSeq(s, 1, i - 1)>> \o Split(SubSeq(s, i + 1, Len(s)), sep)

\* the name=value pairs of the query string, as written in the URL
RawPairs(url) ==
  LET q == IndexOf(url, "?")
      pieces == IF q = 0 THEN <<>> ELSE Split(SubSeq(url, q + 1, Len(url)), "&")
      Pair(piece) ==
        LET e == IndexOf(piece, "=") IN
        IF e = 0 THEN [name |-> piece, value |-> ""]
        ELSE [name |-> SubSeq(piece, 1, e - 1), value |-> SubSeq(piece, e + 1, Len(piece))]
  IN [i \in {j \in 1..Len(pieces) : pieces[j] # ""} |-> Pair(pieces[i])]

\* new URLSearchParams(search)
URLSearchParams(url) ==
  LET raw == RawPairs(url) IN
  [i \in DOMAIN raw |-> [name |-> PercentDecode(raw[i].name, TRUE),
                         value |-> PercentDecode(raw[i].value, TRUE)]]

Has(params, name) == \E i \in DOMAIN params : params[i].name = name
\* searchParams.get(name): the value of the first pair with this name
Get(params, name) ==
  LET i == CHOOSE j \in DOMAIN params :
             /\ params[j].name = name
             /\ \A k \in DOMAIN params : params[k].name = name => j <= k
  IN params[i].value

\* a field read back from the URL as its reader does
ReadBack(url, name) == decodeURIComponent(decodeURIComponent(Get(URLSearchParams(url), name)))

\* what the reader finds for a field with value v: nothing when v is undefined
\* or null, else String(v), written as an empty value when v is ''
FieldReadsBack(url, name, v) ==
  LET params == URLSearchParams(url) IN
  IF Defined(v)
    THEN /\ Has(params, name)
         /\ ReadBack(url, name) = String(v)
         /\ v = "" => \E i \in DOMAIN RawPairs(url) :
                        PercentDecode(RawPairs(url)[i].name, TRUE) = name
                          /\ RawPairs(url)[i].value = ""
    ELSE ~Has(params, name)

EntriesReadBack(url, prefix, entries) ==
  \A i \in 1..Len(entries) :
    IF entries[i].object
      THEN \A k \in 1..Len(entries[i].fields) :
             FieldReadsBack(url,
                            prefix \o "[" \o entries[i].key \o "][" \o entries[i].fields[k].key \o "]",
                            entries[i].fields[k].value)
      ELSE FieldReadsBack(url, prefix \o "[" \o entries[i].key \o "]", entries[i].value)

C17_AsStated ==
  \A p \in Procs :
    (proc[p].op \in {"runImport", "runExport"} /\ Falsy(proc[p].db0))
      => /\ Done(p)
         /\ proc[p].calls = <<>>
         /\ proc[p].ret = Some(DbIdRequired)

\* C17 amended: runImport and runExport, called while the client's active dbId
\* is unset or empty, issue no network call and return exactly {success:false,
\* error:'No database selected'}.
C17_NoDatabaseSelected ==
  \A p \in Procs :
    (proc[p].op \in {"runImport", "runExport"} /\ Falsy(proc[p].db0))
      => /\ Done(p)
         /\ proc[p].calls = <<>>
         /\ proc[p].invoked = <<>>
         /\ proc[p].thrown = None
         /\ proc[p].ret = Some([success |-> FALSE, data |-> None, status |-> None,
                                error |-> Some("No database selected")])

\* C17 case: runExport is called on a client whose dbId was set to ''.
C17_Witness ==
  \E p \in Procs :
    /\ proc[p].op = "runExport"
    /\ dbId = ""
    /\ proc[p].db0 = ""
    /\ Done(p)
    /\ proc[p].ret # None

(***************************************************************************)
(* Verbose logging.                                                        *)
(***************************************************************************)
\* the console.log lines among the lines written
Diagnostics(lines) == SelectSeq(lines, LAMBDA l : l.stream = "log")

\* a console line shows the text t
Shows(line, t) ==
  \/ HasSubstring(line.text, t)
  \/ /\ line.detail # None
     /\ \E f \in DOMAIN line.detail[1] : HasSubstring(String(line.detail[1][f]), t)

\* the lines the direct call of p writes on a client whose token is t and which
\* is otherwise the same, given the same outcome
TwinLog(p, t) ==
  LET pr == proc[p] IN
  (IF pr.calls = <<>> THEN <<>> ELSE VerboseLines(String(baseUrl) \o pr.calls[1].url, t))
    \o (IF pr.outcome = None THEN <<>> ELSE Intercept(pr.outcome[1]))

\* C16: on a verbose client every call made through request writes exactly two
\* console.log lines, and writes them before the outbound call ends: the full
\* URL (base URL followed by the endpoint) and "[Set]" for the token.  A method
\* that returns without calling request writes none.  No console line and no
\* field of getConnectionDetails shows the token, and a client that differs in
\* the token only writes the same lines and reports the same connection details.
C16_VerboseLogging ==
  \A p \in Procs :
    (DirectCall(p) /\ verbose)
      => LET pr == proc[p]
             lines == pr.log
         IN
         /\ Len(Diagnostics(lines)) = 2 * Len(pr.calls)
         /\ pr.calls # <<>>
              => /\ lines[1] = LogLine("(link) Full API URL: " \o baseUrl \o pr.calls[1].url)
                 /\ lines[2] = LogLine("(lock) API Key: [Set]")
         /\ (pr.pc = "await" /\ pr.wait.call # None) => Len(lines) = 2
         /\ \A i \in 1..Len(lines) : ~Shows(lines[i], apiToken)
         /\ getConnectionDetails.baseUrl = baseUrl
         /\ getConnectionDetails.apiKeySet = "[Set]"
         /\ getConnectionDetails.verbose = TRUE
         /\ \A t \in VerboseTokens :
              /\ lines = TwinLog(p, t)
              /\ getConnectionDetails = ConnectionDetails(baseUrl, t, verbose)

\* C16 case: a verbose client's call was rejected by the remote service, so the
\* two diagnostic lines are followed by the interceptor's error line
C16_Witness ==
  \E p \in Procs :
    /\ DirectCall(p) /\ verbose /\ Done(p)
    /\ proc[p].op = "accounts"
    /\ apiToken = "tok-B"
    /\ Len(proc[p].log) = 3
    /\ proc[p].log[1].text = "(link) Full API URL: https://meta.feedonomics.com/api.php/user/accounts"

(***************************************************************************)
(* The service operations against a remote service that keeps its state.   *)
(***************************************************************************)
Service(p, op) == proc[p].op = op /\ proc[p].pc # "idle"

\* the remote service holds a resource with this identifier, created by step
Holds(listing, id, step) ==
  \E r \in remote : r.at = listing /\ r.id = id /\ r.by = step /\ ~r.gone

\* C12: setupBigCommerceIntegration never rolls back.  In every run the calls
\* issued are the forward steps, in order, up to the step that failed, which is
\* the last one; every call is a POST or a PUT, none a DELETE; and what the
\* completed steps created (the account, the database, the group, the vault
\* entry, the import) is still held by the remote service, also after a later
\* step failed.
C12_NoRollback ==
  \A p \in Procs :
    Setup(p) =>
      LET pr == proc[p]
          n == Len(pr.invoked)
          account == "/accounts/" \o String(pr.got.accountId)
          db == "/dbs/" \o String(pr.got.dbId)
      IN /\ pr.invoked = SubSeq(StepsOf(pr.params), 1, n)
         /\ Len(pr.calls) = n
         /\ \A i \in 1..n : pr.calls[i].method \in {"POST", "PUT"}
         /\ SetupFailed(p)
              => /\ pr.received = n
                 /\ pr.last.step = pr.invoked[n]
                 /\ ~pr.last.success
         /\ pr.got.accountId # Undef
              => Holds("/user/accounts", pr.got.accountId, "createBigCommerceAccount")
         /\ pr.got.dbId # Undef => Holds(account \o "/dbs", pr.got.dbId, "createDb")
         /\ (Invoked(p, "moveDbintoNewDbGroup") /\ Invoked(p, "addDbVaultEntry"))
              => \E r \in remote :
                   /\ r.at = "/groups" /\ r.name = pr.params.groupName
                   /\ r.by = "moveDbintoNewDbGroup" /\ ~r.gone
         /\ pr.got.vaultId # Undef => Holds(db \o "/vault", pr.got.vaultId, "addDbVaultEntry")
         /\ pr.got.importId # Undef
              => Holds(db \o "/imports", pr.got.importId, "createImport")

\* C12 case: the run failed at the schedule step, after the account, the
\* database, the group, the vault entry and the import were created
C12_Witness ==
  \E p \in Procs :
    /\ Setup(p) /\ SetupFailed(p)
    /\ proc[p].last.step = "updateImportSchedule"
    /\ proc[p].got.importId # Undef
    /\ Cardinality({r \in remote : r.by # "" /\ ~r.gone}) >= 5

\* the create call of each get-or-create operation, the listing it adds to and
\* the name it gives
CreateStepOf(op) ==
  CASE op = "getOrCreateAccount" -> "createBigCommerceAccount"
    [] op = "moveDbToGroup" -> "createGroup"
    [] op = "createOrUpdateImport" -> "createImport"
    [] op = "createOrUpdateExport" -> "createExport"

TargetOf(pr) ==
  CASE pr.op = "getOrCreateAccount" ->
         [at |-> "/user/accounts", name |-> "BC-" \o String(pr.args[1].storeId)]
    [] pr.op = "moveDbToGroup" ->
         [at |-> "/groups", name |-> pr.args[1].accountName]
    [] pr.op = "createOrUpdateImport" ->
         [at |-> "/dbs/" \o String(pr.db0) \o "/imports", name |-> "BigCommerceImport"]
    [] pr.op = "createOrUpdateExport" ->
         [at |-> "/dbs/" \o String(pr.db0) \o "/exports", name |-> "Export Google"]

\* an earlier call of the operation created its resource, and the remote
\* service still holds it
Persisted(pr) ==
  \E r \in remote :
    /\ r.at = TargetOf(pr).at /\ r.name = TargetOf(pr).name
    /\ r.by = CreateStepOf(pr.op) /\ ~r.gone

\* C14 as stated: getOrCreateAccount, moveDbToGroup, createOrUpdateImport and
\* createOrUpdateExport, called again with the same inputs while the remote
\* service holds the resource an earlier call created, issue no create call.
C14_AsStated ==
  \A p \in Procs :
    (/\ proc[p].op \in {"getOrCreateAccount", "moveDbToGroup", "createOrUpdateImport",
                        "createOrUpdateExport"}
     /\ proc[p].pc = "await"
     /\ proc[p].wait.call # None
     /\ proc[p].step = CreateStepOf(proc[p].op))
      => ~Persisted(proc[p])

\* the fetch each get-or-create operation starts with, and the label of its failure
FetchStepOf(op) ==
  CASE op = "getOrCreateAccount" -> "accounts"
    [] op = "moveDbToGroup" -> "groups"
    [] op = "createOrUpdateImport" -> "imports"
    [] op = "createOrUpdateExport" -> "exports"
    [] op = "updateVaultEntries" -> "vault"
    [] op = "getFtpCredentials" -> "ftpAccounts"

FetchLabel(op) ==
  CASE op = "getOrCreateAccount" -> "Error getting accounts:"
    [] op = "moveDbToGroup" -> "Error getting db groups:"
    [] op = "createOrUpdateImport" -> "Error getting imports:"
    [] op = "createOrUpdateExport" -> "Error getting exports:"
    [] op = "updateVaultEntries" -> "Error getting vaults:"
    [] op = "getFtpCredentials" -> "Error getting credentials:"

GetOrCreateOps ==
  {"getOrCreateAccount", "moveDbToGroup", "createOrUpdateImport", "createOrUpdateExport",
   "updateVaultEntries", "getFtpCredentials"}

\* C19 as stated: in each of the six get-or-create operations, when the fetch
\* it starts with fails, the operation returns at once a failure envelope whose
\* error carries the label of the fetch, and the fetch is the only client
\* method it invoked: no create, update or delete call follows.
C19_AsStated ==
  \A p \in Procs :
    (/\ proc[p].op \in GetOrCreateOps
     /\ proc[p].last.step = FetchStepOf(proc[p].op)
     /\ ~proc[p].last.success)
      => /\ Done(p)
         /\ proc[p].invoked = <<FetchStepOf(proc[p].op)>>
         /\ proc[p].ret # None
         /\ ~proc[p].ret[1].success
         /\ proc[p].ret[1].error # None
         /\ HasSubstring(proc[p].ret[1].error[1], FetchLabel(proc[p].op))

UpdateStepOf(op) == IF op = "createOrUpdateImport" THEN "updateImport" ELSE "updateExport"

\* the entries of the operation's listing that carry its fixed name
Named(pr) ==
  SelectSeq(Listed(remote, TargetOf(pr).at), LAMBDA e : e.name = TargetOf(pr).name)

\* C20: createOrUpdateImport and createOrUpdateExport, once the listing was
\* fetched, go one of two ways by what the listing holds.  If it holds an entry
\* named 'BigCommerceImport' / 'Export Google', the operation issues one update
\* call, a PUT on that entry's identifier, whatever isCreate says, and on
\* success returns the entry as it was fetched, not the body of the update
\* response.  If it holds none, the operation issues one create call, a POST
\* on the listing, and on success returns the body of the create response.
\* No invocation issues both, or more than one of either.
C20_Reconciliation ==
  \A p \in Procs :
    (proc[p].op \in {"createOrUpdateImport", "createOrUpdateExport"} /\ proc[p].pc # "idle")
      => LET pr == proc[p]
             update == UpdateStepOf(pr.op)
             create == CreateStepOf(pr.op)
             listing == TargetOf(pr).at
             writes == {i \in 1..Len(pr.invoked) : pr.invoked[i] \in {update, create}}
         IN
         /\ Cardinality(writes) <= 1
         /\ (pr.last.step = FetchStepOf(pr.op) /\ pr.last.success)
              => /\ pr.pc = "await"
                 /\ pr.wait.call # None
                 /\ IF Named(pr) # <<>>
                      THEN /\ pr.step = update
                           /\ pr.wait.call[1].method = "PUT"
                           /\ pr.wait.call[1].url = listing \o "/" \o Named(pr)[1].id
                           /\ pr.existing = Some(Named(pr)[1])
                      ELSE /\ pr.step = create
                           /\ pr.wait.call[1].method = "POST"
                           /\ pr.wait.call[1].url = listing
         /\ (Done(p) /\ pr.ret # None /\ pr.ret[1].success)
              => /\ Cardinality(writes) = 1
                 /\ IF Invoked(p, update)
                      THEN /\ pr.ret[1].data # None
                           /\ \E i \in 1..Len(Named(pr)) : pr.ret[1].data[1] = Named(pr)[i]
                           /\ pr.ret[1].data = pr.existing
                      ELSE /\ pr.ret[1].data # None
                           /\ Holds(listing, pr.ret[1].data[1].id, create)
                           /\ pr.ret[1].data[1] =
                                [id |-> Named(pr)[Len(Named(pr))].id, message |-> Undef,
                                 new_row_id |-> Undef]

\* C20 case: createOrUpdateImport was called with isCreate set while the
\* listing held the named import after another one; the update went through
\* and the operation returned
C20_Witness ==
  \E p \in Procs :
    /\ Service(p, "createOrUpdateImport") /\ Done(p)
    /\ proc[p].args[1].isCreate
    /\ proc[p].invoked = <<"imports", "updateImport">>
    /\ proc[p].ret # None /\ proc[p].ret[1].success
    /\ proc[p].ret[1].data = Some([id |-> "i1", name |-> "BigCommerceImport"])

\* the entries of the listing that the lookup of getOrCreateAccount or of
\* moveDbToGroup matches
Matching(pr) ==
  IF pr.op = "getOrCreateAccount"
    THEN SelectSeq(Listed(remote, "/user/accounts"),
                   LAMBDA a : a.account_name = "BC-" \o String(pr.args[1].storeId))
    ELSE SelectSeq(Listed(remote, "/groups"), LAMBDA g : StartsWith(g.name, "BC-"))

\* the operation has fetched its listing and the listing holds a match
Found(p) ==
  /\ proc[p].op \in {"getOrCreateAccount", "moveDbToGroup"}
  /\ proc[p].pc # "idle"
  /\ proc[p].last.step = FetchStepOf(proc[p].op)
  /\ proc[p].last.success
  /\ Matching(proc[p]) # <<>>

\* C21 as stated: when the fetched collection holds a matching entry,
\* getOrCreateAccount and moveDbToGroup return the found record as the success
\* payload and issue no remote call beyond the fetch.
C21_AsStated ==
  \A p \in Procs :
    Found(p)
      => /\ Done(p)
         /\ proc[p].invoked = <<FetchStepOf(proc[p].op)>>
         /\ proc[p].ret # None
         /\ proc[p].ret[1].success
         /\ proc[p].ret[1].data # None
         /\ \E i \in 1..Len(Matching(proc[p])) : proc[p].ret[1].data[1] = Matching(proc[p])[i]

\* C21: when the fetched collection holds a matching entry, getOrCreateAccount
\* returns a record of that name as its success payload and issues no call
\* beyond the fetch.  moveDbToGroup issues no create call, but it does issue
\* one more call, a POST on /groups/{id}/dbs for the first group whose name
\* starts with 'BC-', and it returns the result of that call: on success the
\* body of the response, not the group it found.
C21_FoundRecord ==
  \A p \in Procs :
    LET pr == proc[p] IN
    /\ (Service(p, "getOrCreateAccount") /\ Found(p))
         => /\ Done(p)
            /\ pr.invoked = <<"accounts">>
            /\ pr.ret # None /\ pr.ret[1].success /\ pr.ret[1].data # None
            /\ \E i \in 1..Len(Matching(pr)) : pr.ret[1].data[1] = Matching(pr)[i]
    /\ (Service(p, "moveDbToGroup") /\ pr.received >= 1 /\ pr.invoked[1] = "groups"
          /\ Len(pr.invoked) >= 2 /\ pr.invoked[2] = "moveDbToGroup")
         => /\ pr.invoked = <<"groups", "moveDbToGroup">>
            /\ Len(pr.calls) = 2
            /\ Matching(pr) # <<>>
            /\ pr.calls[2].method = "POST"
            /\ pr.calls[2].url = "/groups/" \o Matching(pr)[1].id \o "/dbs"
            /\ pr.existing = Some(Matching(pr)[1])
            /\ (Done(p) /\ pr.ret # None /\ pr.ret[1].success)
                 => pr.ret[1].data =
                      Some([id |-> Undef, message |-> "ok", new_row_id |-> Undef])
    /\ (Service(p, "moveDbToGroup") /\ Found(p))
         => /\ Len(pr.invoked) = 2
            /\ pr.invoked[2] = "moveDbToGroup"

\* C21 case: moveDbToGroup found the group 'BC-999', moved the database into it
\* and returned
C21_Witness ==
  \E p \in Procs :
    /\ Service(p, "moveDbToGroup") /\ Done(p)
    /\ proc[p].invoked = <<"groups", "moveDbToGroup">>
    /\ proc[p].existing = Some([id |-> "g0", name |-> "BC-999"])
    /\ proc[p].ret # None /\ proc[p].ret[1].success

\* updateVaultEntries has fetched the vault
VaultFetched(p) ==
  /\ Service(p, "updateVaultEntries")
  /\ proc[p].received >= 1
  /\ proc[p].invoked[1] = "vault"
  /\ (proc[p].received > 1 \/ proc[p].last.success)

\* the fetched rows under a name
RowsNamed(pr, name) == SelectSeq(pr.entries, LAMBDA e : e.name = name)

\* where in the order of its client calls the operation invoked a method (0: nowhere)
PlaceOf(pr, step) ==
  LET at == {i \in 1..Len(pr.invoked) : pr.invoked[i] = step} IN
  IF at = {} THEN 0 ELSE CHOOSE i \in at : \A j \in at : i <= j

\* C22: updateVaultEntries cleans up before it reconciles.  If the fetched
\* vault holds an entry named 'BigCommerce Credentials', the call that follows
\* the fetch is a DELETE of that entry, ahead of any createVault or updateVault;
\* if the delete fails the operation returns a failure labelled 'Error deleting
\* vault:' and has issued neither createVault nor updateVault; if the vault
\* holds no such entry, no delete call is issued.
C22_LegacyCleanup ==
  \A p \in Procs :
    VaultFetched(p)
      => LET pr == proc[p]
             legacy == RowsNamed(pr, "BigCommerce Credentials")
         IN
         /\ (pr.received = 1) => pr.entries = Listed(remote, "/vault")
         /\ IF legacy # <<>>
              THEN /\ Len(pr.invoked) >= 2
                   /\ pr.invoked[2] = "deleteVault"
                   /\ pr.calls[2].method = "DELETE"
                   /\ pr.calls[2].url = "/vault/" \o legacy[1].id
                   /\ PlaceOf(pr, "createVault") \in {0, 3}
                   /\ PlaceOf(pr, "updateVault") \in {0, 3}
              ELSE PlaceOf(pr, "deleteVault") = 0
         /\ (pr.last.step = "deleteVault" /\ ~pr.last.success)
              => /\ Done(p)
                 /\ pr.invoked = <<"vault", "deleteVault">>
                 /\ pr.ret # None
                 /\ ~pr.ret[1].success
                 /\ pr.ret[1].error # None
                 /\ HasSubstring(pr.ret[1].error[1], "Error deleting vault:")

\* C22 case: the vault held the legacy entry, its delete was refused and the
\* operation returned
C22_Witness ==
  \E p \in Procs :
    /\ Service(p, "updateVaultEntries") /\ Done(p)
    /\ proc[p].invoked = <<"vault", "deleteVault">>
    /\ proc[p].calls[2].url = "/vault/v0"
    /\ proc[p].ret # None /\ ~proc[p].ret[1].success
    /\ proc[p].ret[1].error = Some("Error deleting vault: boom")

\* C23: once updateVaultEntries is past the cleanup, it goes one of two ways.
\* If the fetched vault holds an entry named 'bc_credentials', it issues one
\* updateVault call, a PUT on that entry's identifier, and no createVault, and
\* on success returns the body of the update response, not the entry it
\* fetched.  If the vault holds none, also when the response carried no row
\* list, it issues one createVault call, a POST, and no updateVault, and on
\* success returns the body of the create response.
C23_VaultReconciliation ==
  \A p \in Procs :
    (VaultFetched(p)
       /\ (RowsNamed(proc[p], "BigCommerce Credentials") # <<>> => proc[p].received >= 2)
       /\ (proc[p].last.step = "deleteVault" => proc[p].last.success))
      => LET pr == proc[p]
             current == RowsNamed(pr, "bc_credentials")
             writes == {i \in 1..Len(pr.invoked) : pr.invoked[i] \in {"createVault", "updateVault"}}
             w == CHOOSE i \in writes : TRUE
         IN
         /\ Cardinality(writes) = 1
         /\ w = Len(pr.invoked)
         /\ IF current # <<>>
              THEN /\ pr.invoked[w] = "updateVault"
                   /\ pr.calls[w].method = "PUT"
                   /\ pr.calls[w].url = "/vault/" \o current[1].id
              ELSE /\ pr.invoked[w] = "createVault"
                   /\ pr.calls[w].method = "POST"
                   /\ pr.calls[w].url = "/vault"
         /\ (Done(p) /\ pr.ret # None /\ pr.ret[1].success)
              => IF current # <<>>
                   THEN pr.ret[1].data =
                          Some([id |-> Undef, message |-> "ok", new_row_id |-> Undef])
                   ELSE /\ pr.ret[1].data # None
                        /\ pr.ret[1].data[1].id = Undef
                        /\ Holds("/vault", pr.ret[1].data[1].new_row_id, "createVault")

\* C23 case: the vault response carried no row list, so the entry was created
C23_Witness ==
  \E p \in Procs :
    /\ Service(p, "updateVaultEntries") /\ Done(p)
    /\ proc[p].invoked = <<"vault", "createVault">>
    /\ proc[p].entries = <<>>
    /\ proc[p].ret # None /\ proc[p].ret[1].success
    /\ Holds("/vault", "vlt-1", "createVault")

\* the entries that carry the key an operation looks up, in the order the
\* remote service returns them
KeyMatches(pr) ==
  CASE pr.op \in {"getOrCreateAccount", "moveDbToGroup"} -> Matching(pr)
    [] pr.op \in {"createOrUpdateImport", "createOrUpdateExport"} -> Named(pr)
    [] OTHER -> <<>>

\* C24 as stated: in every lookup by name, when the listing the remote service
\* returned holds several entries with the key, the entry used is the first of
\* them: getOrCreateAccount returns it, moveDbToGroup moves the database into
\* it, createOrUpdateImport and createOrUpdateExport update it, and
\* updateVaultEntries deletes the first legacy entry and updates the first
\* 'bc_credentials' entry.
C24_AsStated ==
  \A p \in Procs :
    LET pr == proc[p] IN
    /\ (pr.op \in {"getOrCreateAccount", "moveDbToGroup", "createOrUpdateImport",
                   "createOrUpdateExport"}
          /\ pr.pc # "idle"
          /\ pr.last.step = FetchStepOf(pr.op) /\ pr.last.success
          /\ Len(KeyMatches(pr)) >= 2)
         => IF pr.op = "getOrCreateAccount"
              THEN /\ Done(p)
                   /\ pr.ret # None
                   /\ pr.ret[1].data = Some(KeyMatches(pr)[1])
              ELSE /\ pr.pc = "await"
                   /\ pr.existing = Some(KeyMatches(pr)[1])
                   /\ pr.wait.call # None
                   /\ HasSubstring(pr.wait.call[1].url, "/" \o KeyMatches(pr)[1].id)
    /\ (VaultFetched(p) /\ pr.received = 1)
         => /\ Len(RowsNamed(pr, "BigCommerce Credentials")) >= 1
                => pr.wait.call[1].url = "/vault/" \o RowsNamed(pr, "BigCommerce Credentials")[1].id
            /\ (RowsNamed(pr, "BigCommerce Credentials") = <<>>
                  /\ Len(RowsNamed(pr, "bc_credentials")) >= 2)
                => pr.wait.call[1].url = "/vault/" \o RowsNamed(pr, "bc_credentials")[1].id
    /\ (VaultFetched(p) /\ pr.received = 2 /\ pr.last.step = "deleteVault" /\ pr.last.success
          /\ Len(RowsNamed(pr, "bc_credentials")) >= 2)
         => pr.wait.call[1].url = "/vault/" \o RowsNamed(pr, "bc_credentials")[1].id

\* the client method the operation calls for each element
ElementStep(op) == IF op = "createTransformers" THEN "createTransformer" ELSE "updateDbFields"

ElementLabel(op) ==
  IF op = "createTransformers" THEN "Error creating transformer:" ELSE "Error updating db fields:"

\* C27: createTransformers and updateDbFields work through their list in
\* order, one client call per element, each carrying that element, and each
\* issued after the one before has returned.  If the call for element k
\* (counted from 0) fails, k+1 calls have been issued and none for a later
\* element, no DELETE was issued and the transformers created for the earlier
\* elements are still held by the remote service, and the operation returns a
\* labelled failure envelope without the payloads collected.  If every call
\* succeeds, the payload is the list of the response bodies in input order.
C27_InOrder ==
  \A p \in Procs :
    (proc[p].op \in {"createTransformers", "serviceUpdateDbFields"} /\ proc[p].pc # "idle")
      => LET pr == proc[p]
             list == pr.args[1].list
             n == Len(pr.invoked)
             listing == "/dbs/" \o String(pr.db0) \o "/transformers"
         IN
         /\ n <= Len(list)
         /\ \A i \in 1..n : pr.invoked[i] = ElementStep(pr.op)
         /\ pr.received = IF pr.pc = "await" THEN n - 1 ELSE n
         /\ Len(pr.results) = IF pr.last.success THEN pr.received ELSE pr.received - 1
         /\ Truthy(pr.db0)
              => /\ Len(pr.calls) = n
                 /\ \A i \in 1..n :
                      /\ pr.calls[i].data = list[i]
                      /\ pr.calls[i].method # "DELETE"
         /\ (pr.op = "createTransformers")
              => \A i \in 1..Len(pr.results) :
                   /\ pr.results[i] # None
                   /\ \E r \in remote :
                        /\ r.at = listing /\ r.id = pr.results[i][1].id /\ ~r.gone
                        /\ r.by = "createTransformer"
                        /\ r.name = DataField(list[i], "name")
         /\ ~pr.last.success
              => /\ Done(p)
                 /\ pr.ret # None
                 /\ ~pr.ret[1].success
                 /\ pr.ret[1].data = None
                 /\ pr.ret[1].error # None
                 /\ HasSubstring(pr.ret[1].error[1], ElementLabel(pr.op))
         /\ (Done(p) /\ pr.last.success)
              => /\ n = Len(list)
                 /\ pr.ret = Some(Succeeded(Some(pr.results)))

\* C27 case: createTransformers was given three transformers and the call for
\* the third was refused after the first two were created
C27_Witness ==
  \E p \in Procs :
    /\ Service(p, "createTransformers") /\ Done(p)
    /\ Len(proc[p].args[1].list) = 3
    /\ Len(proc[p].calls) = 3
    /\ Len(proc[p].results) = 2
    /\ proc[p].ret # None /\ ~proc[p].ret[1].success
    /\ Cardinality({r \in remote : r.by = "createTransformer" /\ ~r.gone}) >= 2

\* an FdxService operation returned a failure envelope right after a client
\* call of its own reported failure
FailedOnCall(p) ==
  /\ proc[p].op \notin Methods \cup {"", GENERATE}
  /\ Done(p)
  /\ proc[p].ret # None
  /\ ~proc[p].ret[1].success
  /\ proc[p].received >= 1
  /\ ~proc[p].last.success
  /\ proc[p].last.error # None

\* C28 as stated: every failure envelope an FdxService operation returns
\* because one of its client calls reported failure carries that call's error
\* message after a label for the stage, '<label>: <message>'; this includes
\* the schedule step of createOrUpdateExport.
C28_AsStated ==
  \A p \in Procs :
    FailedOnCall(p)
      => /\ proc[p].ret[1].error # None
         /\ proc[p].ret[1].error[1] # proc[p].last.error[1]
         /\ HasSubstring(proc[p].ret[1].error[1], ": " \o proc[p].last.error[1])

\* the operations that call a client method once per element of a list
ListOps == {"createTransformers", "serviceUpdateDbFields"}

\* the call without a response that a timeout ends with
TimedOut(outcome) == outcome.kind = "rejected" /\ outcome.response = None

\* C25: no call is issued again.  Each client method an operation invokes
\* issues at most one HTTP call; an operation invokes each of its client
\* methods at most once per invocation (the operations over a list: once per
\* element); after a failed result the operation does not invoke that method
\* again; and a direct call that ended by timeout has issued its single HTTP
\* call and returns a failure envelope with the transport's message and no
\* status.
C25_NoRetries ==
  \A p \in Procs :
    proc[p].pc # "idle"
      => LET pr == proc[p]
             n == Len(pr.invoked)
         IN
         /\ Len(pr.calls) <= n
         /\ IF pr.op \in ListOps
              THEN n <= Len(pr.args[1].list)
              ELSE \A i, j \in 1..n : pr.invoked[i] = pr.invoked[j] => i = j
         /\ pr.received <= n
         /\ ~pr.last.success
              => \/ Done(p)
                 \/ pr.step # pr.last.step
         /\ (Settled(p) /\ TimedOut(pr.outcome[1]))
              => /\ Len(pr.calls) = 1
                 /\ pr.thrown = None
                 /\ pr.ret = Some(ServiceResponse(FALSE, None,
                                                  Some(pr.outcome[1].message), None))

\* C25 case: a direct createImport call timed out and returned
C25_Witness ==
  \E p \in Procs :
    /\ Settled(p)
    /\ proc[p].op = "createImport"
    /\ TimedOut(proc[p].outcome[1])
    /\ proc[p].ret # None
    /\ proc[p].ret[1].error = Some("timeout of 60000ms exceeded")

\* the database-creation step of a workflow succeeded in this step
DbCreatedNow(p) ==
  /\ Awaiting(p, "createDb")
  /\ proc'[p].got.dbId # Undef
  /\ dbId' = String(proc'[p].got.dbId)

\* C29: the active dbId changes only when the constructor presets it, when
\* setDbId is called, which leaves getDbId equal to its argument, or when the
\* database-creation step of setupBigCommerceIntegration succeeded: no client
\* method and no other FdxService operation or workflow step changes it.  A
\* workflow that got past database creation keeps dbId equal to the new
\* database's identifier up to its return, also when a later step failed.
C29_DbIdFrame ==
  /\ [][/\ dbId' # dbId
             => \/ \E config \in PersistConfigs : constructor(config)
                \/ \E v \in PersistDbIds : setDbId(v)
                \/ \E p \in Procs : DbCreatedNow(p)
         /\ \A v \in PersistDbIds : setDbId(v) => getDbId' = v
         /\ \A p \in Procs :
              (Awaiting(p, "createDb") /\ proc'[p].got.dbId = Undef) => dbId' = dbId]_vars
  /\ [](\A p \in Procs :
          (Setup(p) /\ proc[p].got.dbId # Undef) => getDbId = String(proc[p].got.dbId))

\* C29 case: a client preset to 'db1' ran a workflow that created its database
\* and then failed at the import step; the active database is the new one
C29_Witness ==
  \E p \in Procs :
    /\ Setup(p) /\ SetupFailed(p)
    /\ construction.config[1].dbId = "db1"
    /\ proc[p].last.step = "createImport"
    /\ proc[p].got.dbId = "db-1"
    /\ getDbId = "db-1"

\* the creating steps of the workflow and what each one's identifier is kept as
SetupCreates ==
  {"createBigCommerceAccount", "createDb", "addDbVaultEntry", "createImport"}

GotOf(pr, step) ==
  CASE step = "createBigCommerceAccount" -> pr.got.accountId
    [] step = "createDb" -> pr.got.dbId
    [] step = "addDbVaultEntry" -> pr.got.vaultId
    [] OTHER -> pr.got.importId

\* the resources under the name the step gives them
Alike(rows, step, call) ==
  {r \in rows : r.by = step /\ r.name = NameOf(step, call)}

\* C30: setupBigCommerceIntegration never reads before it creates.  Every
\* invocation starts with createBigCommerceAccount and issues no GET; and
\* whenever its createBigCommerceAccount, createDb, addDbVaultEntry or
\* createImport call is carried out, the remote service holds one more
\* resource of that kind and name than before, whatever it held already, the
\* resources of earlier runs included.
C30_CreatesAgain ==
  /\ [](\A p \in Procs :
          Setup(p)
            => /\ proc[p].invoked[1] = "createBigCommerceAccount"
               /\ \A i \in 1..Len(proc[p].invoked) :
                    \E k \in 1..Len(SetupSteps) : SetupSteps[k] = proc[p].invoked[i]
               /\ \A i \in 1..Len(proc[p].calls) : proc[p].calls[i].method # "GET")
  /\ [][\A p \in Procs : \A step \in SetupCreates :
          (Awaiting(p, step) /\ GotOf(proc'[p], step) # Undef)
            => LET call == proc[p].wait.call[1] IN
               /\ Cardinality(Alike(remote', step, call))
                    = Cardinality(Alike(remote, step, call)) + 1
               /\ \E r \in remote' \ remote :
                    r.id = GotOf(proc'[p], step) /\ r.by = step]_vars

\* C30 case: the workflow was run twice with the same parameters; the remote
\* service holds two accounts, two databases, two vault entries and two
\* imports, pairwise under the same name
C30_Witness ==
  \E p \in Procs :
    /\ Setup(p) /\ SetupSucceeded(p)
    /\ proc[p].got.accountId = "acc-2"
    /\ \A step \in SetupCreates :
         \E a, b \in CreatedBy(remote, step) : a.id # b.id /\ a.name = b.name /\ ~a.gone /\ ~b.gone

\* the calls of a workflow that name the database in their own arguments, and
\* those that go to the active database of the client
ExplicitDbSteps == {"moveDbintoNewDbGroup", "addDbVaultEntry"}
ActiveDbSteps == {"createImport", "updateImportSchedule", "applyAutomateBuildTemplate"}

\* the call addresses this database
OnDb(call, id) == StartsWith(call.url, "/dbs/" \o String(id) \o "/")

\* C26: two workflows on one client are not isolated.  The moveDbintoNewDbGroup
\* and addDbVaultEntry calls of a workflow always address the database that
\* this workflow created.  Its createImport, updateImportSchedule and
\* applyAutomateBuildTemplate calls address the database that is the client's
\* active one when the call is issued, which is the database created by
\* whichever workflow created one last, its own or the other's.
C26_SharedSession ==
  /\ [](\A p \in Callers :
          proc[p].pc # "idle"
            => LET pr == proc[p] IN
               /\ Len(pr.calls) = Len(pr.invoked)
               /\ \A i \in 1..Len(pr.invoked) :
                    /\ pr.invoked[i] \in ExplicitDbSteps
                         => /\ pr.got.dbId # Undef
                            /\ OnDb(pr.calls[i], pr.got.dbId)
                    /\ pr.invoked[i] \in ActiveDbSteps
                         => \E q \in Callers :
                              /\ proc[q].got.dbId # Undef
                              /\ OnDb(pr.calls[i], proc[q].got.dbId))
  /\ [][\A p \in Callers :
          (Len(proc'[p].invoked) > Len(proc[p].invoked) /\ proc'[p].step \in ActiveDbSteps)
            => /\ OnDb(proc'[p].wait.call[1], getDbId)
               /\ \E q \in Callers : getDbId = String(proc[q].got.dbId)]_vars

\* C26 case: the createImport call of one workflow went to the database that
\* the other workflow created, after its own vault entry went to its own
C26_Witness ==
  \E p, q \in Callers :
    /\ p # q
    /\ proc[p].got.dbId # Undef /\ proc[q].got.dbId # Undef
    /\ proc[p].got.dbId # proc[q].got.dbId
    /\ Invoked(p, "createImport")
    /\ \E i \in 1..Len(proc[p].invoked) :
         /\ proc[p].invoked[i] = "createImport"
         /\ proc[p].calls[i].url = "/dbs/" \o String(proc[q].got.dbId) \o "/imports"
    /\ \E i \in 1..Len(proc[p].invoked) :
         /\ proc[p].invoked[i] = "addDbVaultEntry"
         /\ proc[p].calls[i].url = "/dbs/" \o String(proc[p].got.dbId) \o "/vault"

====
